---- MODULE Spec2Model ----
(***************************************************************************)
(* A model of sparql-benchmark-runner: the benchmark execution engine      *)
(* (SparqlBenchmarkRunner: run, executeQueries, executeQuery, isUp,        *)
(* waitUntilUp) and the traversal-metric adapter                           *)
(* (CalculateOptimalTraversalMetric).                                      *)
(*                                                                         *)
(* Time is counted in clock ticks (the unit of countTime).  The endpoint   *)
(* and its streams are the environment: rows, metadata, end, error and the *)
(* timer are events chosen nondeterministically within the profile of the  *)
(* scenario the run was constructed with.                                  *)
(***************************************************************************)
EXTENDS Integers, Sequences, FiniteSets, TLC

VARIABLES
  cfg,                    \* constructor options, run options, endpoint profile
  pc,                     \* position of the single thread of control
  ret,                    \* where waitUntilUp returns to
  counter,                \* waitUntilUp: failed probes so far
  phase,                  \* which executeQueries call of run() is active
  data,                   \* executeQueries: the accumulator (data / results)
  iteration, setPos, id,  \* executeQueries: the three loop cursors
  timeoutHandle,          \* executeQuery: the timer is armed
  count, timestamps, elapsed, trackedTopology, contributingDocuments, metadata,
                          \* executeQuery: closure of the stream handlers
  outcome,                \* how the executeQuery promise settled
  locals,                 \* executeQueries: the loop body's variables
  trace,                  \* history: phase events, dispatches, finished queries
  measured,               \* history: the measurements of the replication call
  fnIn, fnOut,            \* argument and result of a pure function application
  probe,                  \* isUp: the probe's stream, timer and promise
  abandoned,              \* streams that lost the race to the timer and are still open
  since,                  \* history: what a finished query was followed by (log
                          \* lines, sleeps, probes) until the next dispatch
  received,               \* history: the events the current stream has emitted
  late                    \* what the handlers of the abandoned streams have counted

vars == <<cfg, pc, ret, counter, phase, data, iteration, setPos, id,
          timeoutHandle, count, timestamps, elapsed, trackedTopology,
          contributingDocuments, metadata, outcome, locals, trace, measured,
          fnIn, fnOut, probe, abandoned, since, received, late>>

runVars == <<cfg, pc, ret, counter, phase, data, iteration, setPos, id,
             timeoutHandle, count, timestamps, elapsed, trackedTopology,
             contributingDocuments, metadata, outcome, locals, trace, measured,
             probe, abandoned, since, received, late>>

(***************************************************************************)
(* Bounds of the model.                                                    *)
(***************************************************************************)
MaxRows == 2        \* rows a stream emits at most
MaxTime == 2        \* clock ticks a stream stays open at most
MaxScore == 1       \* the evaluator's scores are 0..MaxScore
MaxDown == 1        \* failed probes per waitUntilUp call at most
MaxIndex == 12      \* array-index property names considered: "0".."12"
MaxKs == 3          \* length of kToCheck at most
MaxGroups == 5      \* contributing-node groups at most
MaxEdges == 2       \* edges of an edge list at most
MaxWeight == 1      \* edge weights are 0..MaxWeight, or omitted
MaxNodes == 2       \* entries of a node metadata array at most
MaxResults == 3     \* results handed to the aggregator at most
MaxFields == 3      \* top-level fields of a metadata file at most
MaxElements == 2    \* elements of an array field at most
MaxLate == 1        \* rows an abandoned stream emits at most

\* what stands for undefined in a variable of the loop body: a value of the
\* variable's type that is never read, undefinedVars telling which
\* variables are undefined
Undefined ==
  [count |-> 0, time |-> 0, timestamps |-> <<>>,
   trackedTopology |-> <<>>, contributingDocuments |-> <<>>, metadata |-> <<>>]

Min(a, b) == IF a < b THEN a ELSE b

RECURSIVE SumSeq(_)
SumSeq(s) == IF s = <<>> THEN 0 ELSE Head(s) + SumSeq(Tail(s))

\* Math.floor(a / b) for b > 0
Floor(a, b) == a \div b

(***************************************************************************)
(* The topology snapshot and the provenance group that the endpoint puts   *)
(* on its r-th row (data._trackedTopology.value, data._sourceAttribution   *)
(* .value after JSON.parse): a chain d0 -> d1 -> ... -> dr, the r-th row   *)
(* contributed by document dr.                                             *)
(***************************************************************************)
DocName(i) == "d" \o ToString(i)

EmptyTopology ==
  [nodeToIndex |-> <<>>,
   edgeListUnWeighted |-> <<>>, edgeListDocumentSize |-> <<>>,
   edgeListRequestTime |-> <<>>,
   metadataNode |-> <<>>,
   traversalOrderEdges |-> <<>>]

SnapshotAt(r) ==
  [nodeToIndex |-> [d \in {DocName(i) : i \in 0..r} |->
                      CHOOSE i \in 0..r : DocName(i) = d],
   edgeListUnWeighted |-> [i \in 1..r |-> <<i - 1, i, 1>>],
   edgeListDocumentSize |-> [i \in 1..r |-> <<i - 1, i, i + 1>>],
   edgeListRequestTime |-> [i \in 1..r |-> <<i - 1, i>>],
   metadataNode |-> [i \in 1..(r + 1) |-> [hasParent |-> i > 1]],
   traversalOrderEdges |-> [i \in 1..r |-> <<r - i, r - i + 1, 1>>]]

SourceAttributionAt(r) == <<DocName(r)>>

(***************************************************************************)
(* CalculateOptimalTraversalMetric                                         *)
(***************************************************************************)
\* x => [x[0]+1, x[1]+1, x[2] ? x[2] : 1]; a missing weight is undefined,
\* and 0 is falsy as well
OneIndexedEdge(x) ==
  <<x[1] + 1, x[2] + 1, IF Len(x) >= 3 /\ x[3] # 0 THEN x[3] ELSE 1>>

ConvertZeroIndexedToOneIndexed(edgeList) ==
  [i \in 1..Len(edgeList) |-> OneIndexedEdge(edgeList[i])]

SelectEdgeList(trackedTopology_, metricType) ==
  CASE metricType = "unweighted" -> trackedTopology_.edgeListUnWeighted
    [] metricType = "httpRequestTime" -> trackedTopology_.edgeListRequestTime
    [] metricType = "documentSize" -> trackedTopology_.edgeListDocumentSize
    [] OTHER -> <<>>

\* a scan that collects the zero-indexed positions
RECURSIVE RootsZeroIndexed(_, _)
RootsZeroIndexed(nodeMetaData, k) ==
  IF k > Len(nodeMetaData) THEN <<>>
  ELSE (IF ~nodeMetaData[k].hasParent THEN <<k - 1>> ELSE <<>>)
       \o RootsZeroIndexed(nodeMetaData, k + 1)

RECURSIVE RootsFrom(_, _)
RootsFrom(nodeMetaData, k) ==
  IF k > Len(nodeMetaData) THEN <<>>
  ELSE (IF ~nodeMetaData[k].hasParent THEN <<k>> ELSE <<>>)
       \o RootsFrom(nodeMetaData, k + 1)

\* nodeToIndex[y] + 1; an identifier that is no key gives undefined + 1 = NaN
OneIndexedDoc(nodeToIndex, y) ==
  IF y \in DOMAIN nodeToIndex THEN nodeToIndex[y] + 1 ELSE "NaN"

PrepareMetricInput(trackedTopology_, contributingDocuments_, metricType) ==
  [edgeList |->
     ConvertZeroIndexedToOneIndexed(SelectEdgeList(trackedTopology_, metricType)),
   contributingNodes |->
     [g \in 1..Len(contributingDocuments_) |->
        [j \in 1..Len(contributingDocuments_[g]) |->
           OneIndexedDoc(trackedTopology_.nodeToIndex, contributingDocuments_[g][j])]],
   traversedPath |->
     ConvertZeroIndexedToOneIndexed(trackedTopology_.traversalOrderEdges),
   numNodes |-> Len(trackedTopology_.metadataNode),
   roots |-> RootsFrom(trackedTopology_.metadataNode, 1)]

\* The external evaluator is opaque: score[0] is what runMetricAll returns,
\* score[k] what runMetricFirstK returns for k; both are non-negative.
KValues == {1, 2, 4}
Scores == [{0} \cup KValues -> 0..MaxScore]

\* the guard with >= in place of >
InvokesFirstKAtLeast(metricInput, k) == Len(metricInput.contributingNodes) >= k

\* does the loop body of calculateMetricFirstKResults call the evaluator for k
InvokesFirstK(metricInput, k) == Len(metricInput.contributingNodes) > k

RECURSIVE FirstKLoop(_, _, _, _)
FirstKLoop(kToCheck, metricInput, score, acc) ==
  IF kToCheck = <<>> THEN acc
  ELSE LET k == Head(kToCheck) IN
       FirstKLoop(Tail(kToCheck), metricInput, score,
         IF InvokesFirstK(metricInput, k)
         THEN [metricsFirstK |-> Append(acc.metricsFirstK, score[k]),
               calls |-> Append(acc.calls, k)]
         ELSE [metricsFirstK |-> Append(acc.metricsFirstK, -1),
               calls |-> acc.calls])

\* metricsFirstK is what the method returns; calls lists, in order, the k
\* for which the evaluator was invoked
CalculateMetricFirstKResults(kToCheck, topology, contributingDocuments_, metricType, score) ==
  FirstKLoop(kToCheck,
             PrepareMetricInput(topology, contributingDocuments_, metricType),
             score, [metricsFirstK |-> <<>>, calls |-> <<>>])

CalculateMetricAllResults(topology, contributingDocuments_, metricType, score) ==
  score[0]

(***************************************************************************)
(* ResultAggregatorComunicaQuerySequence.  A list of results is a sequence *)
(* of records; a group holds the positions of its members in that list     *)
(* (the group's array refers to the very objects of the list).  A key-value*)
(* object is the sequence of its entries [key, members] in insertion       *)
(* order.                                                                  *)
(***************************************************************************)
Max(a, b) == IF a > b THEN a ELSE b

\* property names every object inherits from Object.prototype
ObjectPrototypeNames ==
  {"constructor", "hasOwnProperty", "isPrototypeOf", "propertyIsEnumerable",
   "toLocaleString", "toString", "valueOf", "__proto__"}

OwnKeys(object) == {object[i].key : i \in 1..Len(object)}

\* key in object: own and inherited properties
In(key, object) == key \in OwnKeys(object) \/ key \in ObjectPrototypeNames

\* object[key].push(member) throws a TypeError unless object[key] is one of
\* the arrays put there
PushThrows(object, key) == key \notin OwnKeys(object)

Push(object, key, member) ==
  [i \in 1..Len(object) |->
     IF object[i].key = key
     THEN [key |-> key, members |-> Append(object[i].members, member)]
     ELSE object[i]]

\* obj.f = v
SetField(obj, f, v) == (f :> v) @@ obj

\* result.sequence = result.name; result.name = template
Relabelled(result) ==
  SetField(SetField(result, "sequence", result.name), "name", result.template)

RECURSIVE GroupResultsLoop(_, _, _)
GroupResultsLoop(results, i, templates) ==
  IF i > Len(results)
  THEN [threw |-> FALSE, results |-> results, templates |-> templates]
  ELSE LET template == results[i].template
           relabelled == [results EXCEPT ![i] = Relabelled(results[i])]
           created == IF ~In(template, templates)
                      THEN Append(templates, [key |-> template, members |-> <<>>])
                      ELSE templates
       IN IF PushThrows(created, template)
          THEN [threw |-> TRUE, results |-> relabelled, templates |-> created]
          ELSE GroupResultsLoop(relabelled, i + 1, Push(created, template, i))

\* groupResults(results): the grouped results, the results as the call
\* leaves them, and whether it threw
GroupResults(results) == GroupResultsLoop(results, 1, <<>>)

\* aggregateGroupedResults(groupedResults) of the base class: one aggregate
\* per group, in the order of the groups, under the name of its members
AggregateGroupedResults(results, groupedResults) ==
  [g \in 1..Len(groupedResults) |->
     [name |-> results[Head(groupedResults[g].members)].name]]

RECURSIVE GroupAggregateResultsLoop(_, _, _)
GroupAggregateResultsLoop(aggregates, i, groups) ==
  IF i > Len(aggregates) THEN [threw |-> FALSE, groups |-> groups]
  ELSE LET key == aggregates[i].name
       IN IF In(key, groups)
          THEN IF PushThrows(groups, key) THEN [threw |-> TRUE, groups |-> groups]
               ELSE GroupAggregateResultsLoop(aggregates, i + 1, Push(groups, key, i))
          ELSE GroupAggregateResultsLoop(aggregates, i + 1,
                 Append(groups, [key |-> key, members |-> <<i>>]))

GroupAggregateResults(aggregates) == GroupAggregateResultsLoop(aggregates, 1, <<>>)

\* typeof res.httpRequests === 'number'
IsNumber(res) == "httpRequests" \in DOMAIN res

\* resultGroup.filter(res => !res.error && typeof res.httpRequests === 'number')
Filtered(results, resultGroup) ==
  SelectSeq(resultGroup, LAMBDA i : ~results[i].error /\ IsNumber(results[i]))

RECURSIVE RequestsLoop(_, _, _)
RequestsLoop(results, members, acc) ==
  IF members = <<>> THEN acc
  ELSE LET resultHttpRequests == results[Head(members)].httpRequests
           later == acc.successfulExecutions > 0
       IN RequestsLoop(results, Tail(members),
            [requestsSum |-> IF later THEN acc.requestsSum + resultHttpRequests
                                      ELSE resultHttpRequests,
             requestsMax |-> IF later THEN Max(acc.requestsMax, resultHttpRequests)
                                      ELSE resultHttpRequests,
             requestsMin |-> IF later THEN Min(acc.requestsMin, resultHttpRequests)
                                      ELSE resultHttpRequests,
             successfulExecutions |-> acc.successfulExecutions + 1])

\* a statistics block that is written whatever the count
AttachesAlways(successfulExecutions) == TRUE

\* if (successfulExecutions > 0)
AttachesStatistics(successfulExecutions) == successfulExecutions > 0

\* for (const { httpRequests, error } of resultGroup) { if (!error) ... }
StdMembers(results, resultGroup) ==
  SelectSeq(resultGroup, LAMBDA i : ~results[i].error)

\* the sum of (httpRequests - sum / n) ** 2 over the members that are
\* numbers, times n * n
RECURSIVE SquaredDeviations(_, _, _, _)
SquaredDeviations(results, members, sum, n) ==
  IF members = <<>> THEN 0
  ELSE (IF IsNumber(results[Head(members)])
        THEN (n * results[Head(members)].httpRequests - sum)
             * (n * results[Head(members)].httpRequests - sum)
        ELSE 0)
       + SquaredDeviations(results, Tail(members), sum, n)

\* the four fields written for a group.  The mean is the fraction num / den;
\* the standard deviation is the square root of the fraction num / den, or
\* NaN when undefined - mean entered the sum
HttpStatistics(results, resultGroup) ==
  LET acc == RequestsLoop(results, Filtered(results, resultGroup),
               [requestsSum |-> 0, requestsMax |-> 0, requestsMin |-> 0,
                successfulExecutions |-> 0])
      n == acc.successfulExecutions
      members == StdMembers(results, resultGroup)
  IN [attached |-> AttachesStatistics(n),
      httpRequests |-> [num |-> acc.requestsSum, den |-> n],
      httpRequestsMax |-> acc.requestsMax,
      httpRequestsMin |-> acc.requestsMin,
      httpRequestsStd |->
        [nan |-> \E i \in 1..Len(members) : ~IsNumber(results[members[i]]),
         num |-> SquaredDeviations(results, members, acc.requestsSum, n),
         den |-> n * n * n]]

StatisticsFields ==
  {"httpRequests", "httpRequestsMax", "httpRequestsMin", "httpRequestsStd"}

\* groupedAggregates[key][0].httpRequests = ...; and the three others
WithStatistics(aggregate, statistics) ==
  IF statistics.attached
  THEN [f \in StatisticsFields |-> statistics[f]] @@ aggregate
  ELSE aggregate

\* aggregateResults(results)
AggregateResults(results) ==
  LET templated == [i \in 1..Len(results) |->
                      SetField(results[i], "template",
                               results[i].sequenceElement.template)]
      grouped == GroupResults(templated)
      aggregates == AggregateGroupedResults(grouped.results, grouped.templates)
      groupedAggregates == GroupAggregateResults(aggregates)
      first(key) ==
        Head((CHOOSE e \in {groupedAggregates.groups[i] :
                              i \in 1..Len(groupedAggregates.groups)} :
                e.key = key).members)
      target(a) == CHOOSE g \in 1..Len(grouped.templates) :
                     first(grouped.templates[g].key) = a
  IN IF grouped.threw \/ groupedAggregates.threw
     THEN [threw |-> TRUE, results |-> grouped.results,
           groupedResults |-> grouped.templates, aggregateResults |-> <<>>]
     ELSE [threw |-> FALSE, results |-> grouped.results,
           groupedResults |-> grouped.templates,
           aggregateResults |->
             [a \in 1..Len(aggregates) |->
                IF \E g \in 1..Len(grouped.templates) :
                     first(grouped.templates[g].key) = a
                THEN WithStatistics(aggregates[a],
                       HttpStatistics(grouped.results, grouped.templates[target(a)].members))
                ELSE aggregates[a]]]

(***************************************************************************)
(* QueryLoaderFile.loadQueriesMetadataStatic, for one metadata file.       *)
(* parsed is the list of the top-level fields [key, value] of the parsed   *)
(* file in the order for...in and Object.entries enumerate them; a value   *)
(* is an array of elements or a single value.                              *)
(***************************************************************************)
ArrayOf(elements) == [array |-> TRUE, elements |-> elements, value |-> 0]

Single(v) == [array |-> FALSE, elements |-> <<>>, value |-> v]

\* Array.isArray(v)
IsArray(v) == v.array

\* arrayKey.slice(0, -1): the key without its last character
SliceLast(key) ==
  CASE key = "sequenceElements" -> "sequenceElement"
    [] key = "sequenceElement" -> "sequenceElemen"
    [] key = "template" -> "templat"
    [] OTHER -> ""

NoArray == [defined |-> FALSE, arrayKey |-> "", arrayValue |-> <<>>]

\* for (const key in parsed) { if (Array.isArray(parsed[key])) ... }
RECURSIVE ArrayField(_, _, _)
ArrayField(parsed, i, found) ==
  IF i > Len(parsed) THEN found
  ELSE ArrayField(parsed, i + 1,
         IF IsArray(parsed[i].value)
         THEN [defined |-> TRUE, arrayKey |-> parsed[i].key,
               arrayValue |-> parsed[i].value.elements]
         ELSE found)

\* if (!arrayValue || !arrayKey)
HasNoArrayEntry(found) == ~found.defined \/ found.arrayKey = ""

\* Object.fromEntries(Object.entries(parsed).filter(([ , v ]) => !Array.isArray(v)))
BaseFields(parsed) ==
  LET kept == SelectSeq(parsed, LAMBDA e : ~IsArray(e.value))
  IN [k \in {kept[i].key : i \in 1..Len(kept)} |->
        (CHOOSE e \in {kept[i] : i \in 1..Len(kept)} : e.key = k).value]

\* { ...baseFields, [arrayKey.slice(0, -1)]: element }
MetadataObject(baseFields, arrayKey, element) ==
  (SliceLast(arrayKey) :> element) @@ baseFields

\* the file's part of loadQueriesMetadataStatic: whether it threw, and the
\* list stored under the file's name
LoadQueriesMetadataFile(queryMetadata, parsed) ==
  LET found == ArrayField(parsed, 1, NoArray)
      baseFields == BaseFields(parsed)
  IN IF HasNoArrayEntry(found)
     THEN [threw |-> TRUE, queryMetadata |-> queryMetadata]
     ELSE [threw |-> FALSE,
           queryMetadata |-> queryMetadata \o
             [j \in 1..Len(found.arrayValue) |->
                MetadataObject(baseFields, found.arrayKey, found.arrayValue[j])]]

(***************************************************************************)
(* ResultSerializerRaw.serialize and the JSON text it writes.  A value of  *)
(* a result's field is a number, a string, a boolean, an Error object or   *)
(* an object without enumerable properties; the written text of a record   *)
(* is the list of its members [key, token], a token being the characters   *)
(* JSON.stringify writes for the value.                                    *)
(***************************************************************************)
JsNumber(n) == [kind |-> "number", n |-> n, s |-> "", b |-> FALSE]

JsString(str) == [kind |-> "string", n |-> 0, s |-> str, b |-> FALSE]

JsBoolean(b) == [kind |-> "boolean", n |-> 0, s |-> "", b |-> b]

\* new Error(message): message is an own property that is not enumerable
JsError(message) == [kind |-> "Error", n |-> 0, s |-> message, b |-> FALSE]

\* {}
JsEmptyObject == [kind |-> "object", n |-> 0, s |-> "", b |-> FALSE]

\* the field names of a record in the order JSON.stringify writes them
FieldOrder == <<"name", "time", "error">>

\* JSON.stringify(value): an Error has no enumerable property and is
\* written as an empty object
StringifyValue(v) ==
  CASE v.kind = "number" -> [type |-> "number", text |-> ToString(v.n)]
    [] v.kind = "string" -> [type |-> "string", text |-> v.s]
    [] v.kind = "boolean" -> [type |-> "literal", text |-> IF v.b THEN "true" ELSE "false"]
    [] OTHER -> [type |-> "object", text |-> "{}"]

\* JSON.stringify(result): the members of the fields that are defined
StringifyRecord(result) ==
  LET present == SelectSeq(FieldOrder, LAMBDA f : f \in DOMAIN result)
  IN [i \in 1..Len(present) |->
        [key |-> present[i], token |-> StringifyValue(result[present[i]])]]

Stringify(results) == [i \in 1..Len(results) |-> StringifyRecord(results[i])]

\* the numbers a record's numeric field takes
Numbers == 0..12

\* JSON.parse of one token
ParseToken(token) ==
  CASE token.type = "number" ->
         JsNumber(CHOOSE n \in Numbers : ToString(n) = token.text)
    [] token.type = "string" -> JsString(token.text)
    [] token.type = "literal" -> JsBoolean(token.text = "true")
    [] OTHER -> JsEmptyObject

ParseRecord(members) ==
  [k \in {members[i].key : i \in 1..Len(members)} |->
     ParseToken((CHOOSE m \in {members[i] : i \in 1..Len(members)} : m.key = k).token)]

\* JSON.parse(text)
Parse(text) == [i \in 1..Len(text) |-> ParseRecord(text[i])]

\* { ...result, error: result.error?.message ?? result.error }; a property
\* whose value is undefined is left out of the text
ErrorMessage(result) ==
  IF "error" \notin DOMAIN result THEN result
  ELSE IF result.error.kind = "Error"
       THEN [result EXCEPT !.error = JsString(result.error.s)]
       ELSE result

\* serialize(path, results) of the two sources of ResultSerializerRaw: the
\* text written to path
SerializeRaw(results) == Stringify(results)

SerializeRawErrorMessages(results) ==
  Stringify([i \in 1..Len(results) |-> ErrorMessage(results[i])])

(***************************************************************************)
(* Scenarios: the options the runner is constructed with                   *)
(* (ISparqlBenchmarkRunnerArgs), the hooks given to run() (IRunOptions)    *)
(* and the profile of the endpoint it talks to.  querySets lists the       *)
(* properties of the querySets object in insertion order.                  *)
(*   rows      the endpoint's streams emit at most this many rows          *)
(*   latency   a stream ends or fails after at least this many ticks       *)
(*   ticks     and stays open at most this many ticks                      *)
(*   topology  rows may carry a topology snapshot                          *)
(*   metadata  the stream may emit its metadata event                      *)
(*   faults    streams and the transport may fail                          *)
(*   lingers   a stream stays open after its query lost the race against   *)
(*             the timer                                                   *)
(***************************************************************************)
Queries(n) == [i \in 1..n |-> "SELECT"]

TimingScenario ==
  [querySets |-> <<[name |-> "a", queries |-> Queries(1)]>>,
   warmup |-> 1, replication |-> 2, timestampsRecording |-> TRUE, timeout |-> 1,
   onStart |-> TRUE, onStop |-> TRUE,
   rows |-> MaxRows, latency |-> 0, ticks |-> MaxTime,
   topology |-> FALSE, metadata |-> FALSE, faults |-> TRUE, lingers |-> FALSE]

MetricScenario ==
  [querySets |-> <<[name |-> "m", queries |-> Queries(1)]>>,
   warmup |-> 0, replication |-> 1, timestampsRecording |-> FALSE, timeout |-> 1,
   onStart |-> FALSE, onStop |-> FALSE,
   rows |-> MaxRows, latency |-> 0, ticks |-> 1,
   topology |-> TRUE, metadata |-> TRUE, faults |-> TRUE, lingers |-> FALSE]

OrderScenario ==
  [querySets |-> <<[name |-> "b", queries |-> Queries(1)],
                   [name |-> "10", queries |-> Queries(1)],
                   [name |-> "2", queries |-> Queries(1)]>>,
   warmup |-> 1, replication |-> 1, timestampsRecording |-> FALSE, timeout |-> 0,
   onStart |-> TRUE, onStop |-> FALSE,
   rows |-> 0, latency |-> 0, ticks |-> 0,
   topology |-> FALSE, metadata |-> FALSE, faults |-> TRUE, lingers |-> FALSE]

LoopScenario ==
  [querySets |-> <<[name |-> "x", queries |-> Queries(2)],
                   [name |-> "empty", queries |-> Queries(0)],
                   [name |-> "y", queries |-> Queries(1)]>>,
   warmup |-> 1, replication |-> 2, timestampsRecording |-> FALSE, timeout |-> 0,
   onStart |-> FALSE, onStop |-> TRUE,
   rows |-> 0, latency |-> 0, ticks |-> 1,
   topology |-> FALSE, metadata |-> FALSE, faults |-> FALSE, lingers |-> FALSE]

PrefixScenario ==
  [querySets |-> <<[name |-> "q", queries |-> Queries(11)],
                   [name |-> "q1", queries |-> Queries(1)]>>,
   warmup |-> 0, replication |-> 1, timestampsRecording |-> FALSE, timeout |-> 0,
   onStart |-> TRUE, onStop |-> TRUE,
   rows |-> 0, latency |-> 1, ticks |-> 1,
   topology |-> FALSE, metadata |-> FALSE, faults |-> FALSE, lingers |-> FALSE]

OverlapScenario ==
  [querySets |-> <<[name |-> "o", queries |-> Queries(2)]>>,
   warmup |-> 0, replication |-> 1, timestampsRecording |-> FALSE, timeout |-> 1,
   onStart |-> FALSE, onStop |-> FALSE,
   rows |-> 0, latency |-> 0, ticks |-> 0,
   topology |-> FALSE, metadata |-> FALSE, faults |-> FALSE, lingers |-> TRUE]

Scenarios ==
  {TimingScenario, MetricScenario, OrderScenario, LoopScenario, PrefixScenario,
   OverlapScenario}

(***************************************************************************)
(* for (const name in this.querySets): the property names of an object are *)
(* enumerated array-index names first, in ascending numeric order, then    *)
(* the other names in insertion order.                                     *)
(***************************************************************************)
IsArrayIndex(name) == \E n \in 0..MaxIndex : ToString(n) = name

RECURSIVE AscendingNames(_)
AscendingNames(S) ==
  IF S = {} THEN <<>>
  ELSE LET m == CHOOSE m \in S : \A x \in S : m <= x
       IN <<ToString(m)>> \o AscendingNames(S \ {m})

InsertionNames(querySets) == [i \in 1..Len(querySets) |-> querySets[i].name]

\* an enumeration in plain insertion order
InsertionOrderKeys(querySets) == InsertionNames(querySets)

ObjectKeys(querySets) ==
  AscendingNames({n \in 0..MaxIndex :
                    \E i \in 1..Len(querySets) : querySets[i].name = ToString(n)})
  \o SelectSeq(InsertionNames(querySets), LAMBDA name : ~IsArrayIndex(name))

\* this.querySets[name]
QuerySet(querySets, name) ==
  (CHOOSE q \in {querySets[i] : i \in 1..Len(querySets)} : q.name = name).queries

\* name + id, id being the property name of the query in its array
Key(name, idx) == name \o ToString(idx)

Iterations == IF phase = "warmup" THEN cfg.warmup ELSE cfg.replication

CurrentName == ObjectKeys(cfg.querySets)[setPos]

(***************************************************************************)
(* executeQuery: how the returned promise settles                          *)
(***************************************************************************)
\* resolve({ count, time, timestamps, trackedTopology, contributingDocuments, metadata })
Resolved ==
  [kind |-> "resolve",
   value |-> [count |-> count, time |-> elapsed, timestamps |-> timestamps,
              trackedTopology |-> trackedTopology,
              contributingDocuments |-> contributingDocuments,
              metadata |-> metadata]]

\* error.partialOutput = { count, time, timestamps, metadata }; reject(error)
StreamError ==
  [kind |-> "error",
   partialOutput |-> [count |-> count, time |-> elapsed,
                      timestamps |-> timestamps, metadata |-> metadata]]

\* a timer that attached what the handlers had accumulated so far
TimeoutErrorWithPartialOutput ==
  [kind |-> "timeout",
   partialOutput |-> [count |-> count, time |-> elapsed,
                      timestamps |-> timestamps, metadata |-> metadata,
                      trackedTopology |-> trackedTopology,
                      contributingDocuments |-> contributingDocuments]]

\* reject(new Error('Timeout for running query'))
TimeoutError == [kind |-> "timeout"]

\* fetchBindings rejected: the stream handlers were never installed
TransportError == [kind |-> "reject"]

NoOutcome == [kind |-> "none"]

(***************************************************************************)
(* executeQueries: the loop body after executeQuery settled                *)
(***************************************************************************)
\* destructuring: a property the object lacks gives undefined
Property(obj, f) == IF f \in DOMAIN obj THEN obj[f] ELSE Undefined[f]

MeasurementVars ==
  {"count", "time", "timestamps", "trackedTopology", "contributingDocuments", "metadata"}

\* ({ count, time, timestamps, trackedTopology, contributingDocuments, metadata } = obj)
Destructure(obj, errorObject) ==
  [count |-> Property(obj, "count"), time |-> Property(obj, "time"),
   timestamps |-> Property(obj, "timestamps"),
   trackedTopology |-> Property(obj, "trackedTopology"),
   contributingDocuments |-> Property(obj, "contributingDocuments"),
   metadata |-> Property(obj, "metadata"),
   undefinedVars |-> MeasurementVars \ DOMAIN obj,
   errorObject |-> errorObject]

\* a catch that takes what the handlers of the stream have counted so far
ClosureMeasurement ==
  [count |-> count, time |-> elapsed, timestamps |-> timestamps,
   trackedTopology |-> trackedTopology,
   contributingDocuments |-> contributingDocuments,
   metadata |-> metadata, undefinedVars |-> {}, errorObject |-> TRUE]

ZeroMeasurement ==
  [count |-> 0, time |-> 0, timestamps |-> <<>>,
   trackedTopology |-> EmptyTopology, contributingDocuments |-> <<>>,
   metadata |-> <<>>, undefinedVars |-> {}, errorObject |-> TRUE]

\* try { ... = await this.executeQuery(query) } catch (error) { ... }
CatchOutcome(o) ==
  IF o.kind = "resolve" THEN Destructure(o.value, FALSE)
  ELSE IF "partialOutput" \in DOMAIN o THEN Destructure(o.partialOutput, TRUE)
  ELSE ZeroMeasurement

\* count > 0 && contributingDocuments.length > 0 reads .length of undefined
MetricConditionThrows(l) ==
  l.count > 0 /\ "contributingDocuments" \in l.undefinedVars

MetricCondition(l) == l.count > 0 /\ Len(l.contributingDocuments) > 0

KToCheck == <<1, 2, 4>>

\* metricsCalculated, and (calls) the evaluator invocations made for it:
\* 0 stands for the all-results call, k for the first-k call
MetricsCalculated(l, score) ==
  IF MetricCondition(l)
  THEN LET metricsFirstK ==
             CalculateMetricFirstKResults(KToCheck, l.trackedTopology,
               l.contributingDocuments, "unweighted", score)
       IN [metricsCalculated |->
             <<CalculateMetricAllResults(l.trackedTopology,
                 l.contributingDocuments, "unweighted", score)>>
             \o metricsFirstK.metricsFirstK,
           calls |-> <<0>> \o metricsFirstK.calls]
  ELSE [metricsCalculated |-> <<-1, -1, -1, -1>>, calls |-> <<>>]

\* { name, id, count, time, timestamps, error: Boolean(errorObject), metricsCalculated, metadata }
NewEntry(name, idx, l, metricsCalculated) ==
  [name |-> name, id |-> ToString(idx), count |-> l.count, time |-> l.time,
   timestamps |-> l.timestamps, error |-> l.errorObject,
   metricsCalculated |-> metricsCalculated, metadata |-> l.metadata]

CombineTimestamps(old, new) ==
  [i \in 1..Len(old) |->
     IF i <= Min(Len(old), Len(new)) THEN old[i] + new[i] ELSE old[i]]

\* a merge that takes the error flag of the latest iteration
MergeEntryLastError(dataEntry, l) ==
  [dataEntry EXCEPT
     !.error = l.errorObject,
     !.time = dataEntry.time + l.time,
     !.timestamps = CombineTimestamps(dataEntry.timestamps, l.timestamps)]

\* a merge that takes the row count of the latest iteration
MergeEntryLastCount(dataEntry, l) ==
  [dataEntry EXCEPT
     !.error = IF l.errorObject THEN TRUE ELSE dataEntry.error,
     !.count = l.count,
     !.time = dataEntry.time + l.time,
     !.timestamps = CombineTimestamps(dataEntry.timestamps, l.timestamps)]

MergeEntry(dataEntry, l) ==
  [dataEntry EXCEPT
     !.error = IF l.errorObject THEN TRUE ELSE dataEntry.error,
     !.time = dataEntry.time + l.time,
     !.timestamps = CombineTimestamps(dataEntry.timestamps, l.timestamps)]

\* if (!data[name + id]) { data[name + id] = ... } else { ... }
Merge(d, name, idx, l, metricsCalculated) ==
  IF Key(name, idx) \notin DOMAIN d
  THEN (Key(name, idx) :> NewEntry(name, idx, l, metricsCalculated)) @@ d
  ELSE [d EXCEPT ![Key(name, idx)] = MergeEntry(d[Key(name, idx)], l)]

\* run(): results[key].time = Math.floor(...); results[key].timestamps = ....map(...)
Average(entry, replication) ==
  [entry EXCEPT
     !.time = Floor(entry.time, replication),
     !.timestamps = [i \in 1..Len(entry.timestamps) |->
                       Floor(entry.timestamps[i], replication)]]

Event(ev, ph, it, name, idx) ==
  [ev |-> ev, phase |-> ph, iteration |-> it, name |-> name, id |-> idx]

\* let count, time, ...; let errorObject: nothing assigned yet
NoLocals ==
  [count |-> Undefined.count, time |-> Undefined.time,
   timestamps |-> Undefined.timestamps,
   trackedTopology |-> Undefined.trackedTopology,
   contributingDocuments |-> Undefined.contributingDocuments,
   metadata |-> Undefined.metadata, undefinedVars |-> MeasurementVars,
   errorObject |-> FALSE, metricsCalculated |-> <<>>, calls |-> <<>>]

WithMetrics(l, mc) ==
  [count |-> l.count, time |-> l.time, timestamps |-> l.timestamps,
   trackedTopology |-> l.trackedTopology,
   contributingDocuments |-> l.contributingDocuments,
   metadata |-> l.metadata, undefinedVars |-> l.undefinedVars,
   errorObject |-> l.errorObject,
   metricsCalculated |-> mc.metricsCalculated, calls |-> mc.calls]

Measurement(name, idx, it, l) ==
  [name |-> name, id |-> ToString(idx), iteration |-> it, count |-> l.count,
   time |-> l.time, timestamps |-> l.timestamps, error |-> l.errorObject]

(***************************************************************************)
(* The state machine                                                       *)
(***************************************************************************)
\* a stream that has emitted nothing: rowTimes lists the clock readings at
\* its row events, topologyRows the rows that carried a topology snapshot,
\* and metadataEvents the values of its metadata events
NothingReceived == [rowTimes |-> <<>>, topologyRows |-> <<>>, metadataEvents |-> <<>>]

\* the number of rows the current stream has emitted
RowsReceived == Len(received.rowTimes)

\* the closures of the abandoned streams: the rows their data handlers
\* have counted and the metadata events their metadata handlers have stored
NoLateEvents == [count |-> 0, metadata |-> <<>>]

\* no probe under way
IdleProbe == [at |-> "idle", timer |-> FALSE, value |-> "pending", events |-> <<>>]

Init ==
  /\ cfg \in Scenarios
  /\ pc = "run"
  /\ ret = "none"
  /\ counter = 0
  /\ phase = "none"
  /\ data = <<>>
  /\ iteration = 0
  /\ setPos = 1
  /\ id = 0
  /\ timeoutHandle = FALSE
  /\ count = 0
  /\ timestamps = <<>>
  /\ elapsed = 0
  /\ trackedTopology = EmptyTopology
  /\ contributingDocuments = <<>>
  /\ metadata = <<>>
  /\ outcome = NoOutcome
  /\ locals = NoLocals
  /\ trace = <<>>
  /\ measured = <<>>
  /\ fnIn = [op |-> "none"]
  /\ fnOut = [op |-> "none"]
  /\ probe = IdleProbe
  /\ abandoned = 0
  /\ since = <<>>
  /\ received = NothingReceived
  /\ late = NoLateEvents

loopVars == <<iteration, setPos, id>>
streamVars == <<count, timestamps, elapsed, trackedTopology, contributingDocuments,
                metadata, received>>
fnVars == <<fnIn, fnOut>>
envVars == <<probe, abandoned, since, late>>

---------------------------------------------------------------------------
\* waitUntilUp and isUp

\* what isUp() resolves to, by the event that settles its race
IsUpResult(ev) == ev = "end"

ProbeEvents == {"end", "error", "reject", "timeout"}

\* a promise that takes the value of the latest resolve call
SettleLast(value, v) == v

\* a promise is settled by the first resolve or reject; later calls are ignored
Settle(value, v) == IF value = "pending" THEN v ELSE value

\* const promiseTimeout = ... setTimeout(() => resolve(false), 10_000);
\* const promiseFetch = fetcher.fetchBindings(this.endpoint, this.upQuery)
NewProbe == [at |-> "fetch", timer |-> TRUE, value |-> "pending", events |-> <<>>]

\* the race of isUp() after event ev called resolve (or, for a rejected
\* fetchBindings, the catch returned false)
ProbeSettled(p, ev) ==
  [p EXCEPT !.value = Settle(@, IF IsUpResult(ev) THEN "up" ELSE "down"),
            !.events = Append(@, ev)]

\* the endpoint may still fail a probe: it is up for good after MaxDown
\* failed probes of one waitUntilUp call
MayFail == counter < MaxDown

Logged == [ev |-> "log", arg |-> 0]
Slept(durationMs) == [ev |-> "sleep", arg |-> durationMs]
Probed(value) == [ev |-> "probe", arg |-> IF value = "up" THEN 1 ELSE 0]
Finished(errorObject) == [ev |-> "finished", arg |-> IF errorObject THEN 1 ELSE 0]

CallWaitUntilUp(returnTo) ==
  /\ pc' = "isUp"
  /\ ret' = returnTo
  /\ counter' = 0

\* while (!await this.isUp()): the call of isUp()
IsUp ==
  /\ pc = "isUp"
  /\ pc' = "probe"
  /\ probe' = NewProbe
  /\ UNCHANGED <<cfg, ret, counter, phase, data, loopVars, timeoutHandle,
                 streamVars, outcome, locals, trace, measured, fnVars,
                 abandoned, since, late>>

\* fetchBindings resolved: .then installs the handlers of the probe stream
ProbeFetchResolve ==
  /\ pc = "probe"
  /\ probe.at = "fetch"
  /\ probe' = [probe EXCEPT !.at = "stream"]
  /\ UNCHANGED <<cfg, pc, ret, counter, phase, data, loopVars, timeoutHandle,
                 streamVars, outcome, locals, trace, measured, fnVars,
                 abandoned, since, late>>

\* fetchBindings rejected: the race rejects, .catch(() => false)
ProbeFetchReject ==
  /\ pc = "probe"
  /\ probe.at = "fetch"
  /\ MayFail
  /\ probe' = [ProbeSettled(probe, "reject") EXCEPT !.at = "closed"]
  /\ UNCHANGED <<cfg, pc, ret, counter, phase, data, loopVars, timeoutHandle,
                 streamVars, outcome, locals, trace, measured, fnVars,
                 abandoned, since, late>>

\* results.on('error', ...): clearTimeout(timeoutHandle); resolve(false)
ProbeError ==
  /\ pc = "probe"
  /\ probe.at = "stream"
  /\ MayFail \/ probe.value # "pending"
  /\ probe' = [ProbeSettled(probe, "error") EXCEPT !.at = "errored", !.timer = FALSE]
  /\ UNCHANGED <<cfg, pc, ret, counter, phase, data, loopVars, timeoutHandle,
                 streamVars, outcome, locals, trace, measured, fnVars,
                 abandoned, since, late>>

\* results.on('end', ...): clearTimeout(timeoutHandle); resolve(true)
ProbeEnd ==
  /\ pc = "probe"
  /\ probe.at \in {"stream", "errored"}
  /\ probe' = [ProbeSettled(probe, "end") EXCEPT !.at = "closed", !.timer = FALSE]
  /\ UNCHANGED <<cfg, pc, ret, counter, phase, data, loopVars, timeoutHandle,
                 streamVars, outcome, locals, trace, measured, fnVars,
                 abandoned, since, late>>

\* the 10-second timer fires: resolve(false)
ProbeTimeout ==
  /\ pc = "probe"
  /\ probe.timer
  /\ MayFail \/ probe.value # "pending"
  /\ probe' = [ProbeSettled(probe, "timeout") EXCEPT !.timer = FALSE]
  /\ UNCHANGED <<cfg, pc, ret, counter, phase, data, loopVars, timeoutHandle,
                 streamVars, outcome, locals, trace, measured, fnVars,
                 abandoned, since, late>>

\* the await of the loop condition continues with the value of the race
IsUpReturn ==
  /\ pc = "probe"
  /\ probe.value # "pending"
  /\ pc' = IF probe.value = "up" THEN "up_sleep" ELSE "down_sleep"
  /\ since' = Append(since, Probed(probe.value))
  /\ UNCHANGED <<cfg, ret, counter, phase, data, loopVars, timeoutHandle,
                 streamVars, outcome, locals, trace, measured, fnVars,
                 probe, abandoned, late>>

\* await this.sleep(1_000); ++counter
WaitSleep ==
  /\ pc = "down_sleep"
  /\ pc' = "isUp"
  /\ counter' = counter + 1
  /\ probe' = IdleProbe
  /\ since' = Append(since, Slept(1000))
  /\ UNCHANGED <<cfg, ret, phase, data, loopVars, timeoutHandle,
                 streamVars, outcome, locals, trace, measured, fnVars, abandoned, late>>

\* await this.sleep(5_000); return
WaitReturn ==
  /\ pc = "up_sleep"
  /\ pc' = ret
  /\ ret' = "none"
  /\ counter' = 0
  /\ probe' = IdleProbe
  /\ since' = Append(since, Slept(5000))
  /\ trace' = IF ret = "warmup" THEN Append(trace, Event("up", "run", 0, "", 0))
                               ELSE trace
  /\ UNCHANGED <<cfg, phase, data, loopVars, timeoutHandle,
                 streamVars, outcome, locals, measured, fnVars, abandoned, late>>

---------------------------------------------------------------------------
\* run

\* await this.waitUntilUp()
RunWaitUntilUp ==
  /\ pc = "run"
  /\ CallWaitUntilUp("warmup")
  /\ UNCHANGED <<cfg, phase, data, loopVars, timeoutHandle,
                 streamVars, outcome, locals, trace, measured, fnVars, envVars>>

CallExecuteQueries(ph, accumulator) ==
  /\ phase' = ph
  /\ data' = accumulator
  /\ iteration' = 0
  /\ setPos' = 1
  /\ id' = 0
  /\ pc' = "for_iteration"

\* await this.executeQueries({}, this.warmup)
RunWarmup ==
  /\ pc = "warmup"
  /\ CallExecuteQueries("warmup", <<>>)
  /\ UNCHANGED <<cfg, ret, counter, timeoutHandle, streamVars, outcome, locals,
                 trace, measured, fnVars, envVars>>

\* the replication call given the object the warm-up call filled
WarmupAccumulator == data

\* the accumulator the replication call is given: const results = {}
Results == <<>>

\* const results = {}; onStart; await this.executeQueries(results, this.replication)
RunReplication ==
  /\ pc = "onStart"
  /\ CallExecuteQueries("replication", Results)
  /\ trace' = IF cfg.onStart THEN Append(trace, Event("onStart", "run", 0, "", 0))
                             ELSE trace
  /\ UNCHANGED <<cfg, ret, counter, timeoutHandle, streamVars, outcome, locals,
                 measured, fnVars, envVars>>

\* onStop
RunOnStop ==
  /\ pc = "onStop"
  /\ pc' = "average"
  /\ trace' = IF cfg.onStop THEN Append(trace, Event("onStop", "run", 0, "", 0))
                            ELSE trace
  /\ UNCHANGED <<cfg, ret, counter, phase, data, loopVars, timeoutHandle,
                 streamVars, outcome, locals, measured, fnVars, envVars>>

\* for (const key in results) { ... }; return results
RunAverage ==
  /\ pc = "average"
  /\ pc' = "done"
  /\ data' = [key \in DOMAIN data |-> Average(data[key], cfg.replication)]
  /\ trace' = Append(trace, Event("averaged", "run", 0, "", 0))
  /\ UNCHANGED <<cfg, ret, counter, phase, loopVars, timeoutHandle,
                 streamVars, outcome, locals, measured, fnVars, envVars>>

---------------------------------------------------------------------------
\* executeQueries: the three loops

ReturnFromExecuteQueries == IF phase = "warmup" THEN "onStart" ELSE "onStop"

\* for (let iteration = 0; iteration < iterations; iteration++)
ForIteration ==
  /\ pc = "for_iteration"
  /\ IF iteration < Iterations
     THEN pc' = "for_name" /\ setPos' = 1
     ELSE pc' = ReturnFromExecuteQueries /\ UNCHANGED setPos
  /\ UNCHANGED <<cfg, ret, counter, phase, data, iteration, id, timeoutHandle,
                 streamVars, outcome, locals, trace, measured, fnVars, envVars>>

\* for (const name in this.querySets)
ForName ==
  /\ pc = "for_name"
  /\ IF setPos <= Len(ObjectKeys(cfg.querySets))
     THEN pc' = "for_id" /\ id' = 0 /\ UNCHANGED iteration
     ELSE pc' = "for_iteration" /\ iteration' = iteration + 1 /\ UNCHANGED id
  /\ UNCHANGED <<cfg, ret, counter, phase, data, setPos, timeoutHandle,
                 streamVars, outcome, locals, trace, measured, fnVars, envVars>>

\* for (const id in test): no query left in this set
ForIdDone ==
  /\ pc = "for_id"
  /\ id >= Len(QuerySet(cfg.querySets, CurrentName))
  /\ pc' = "for_name"
  /\ setPos' = setPos + 1
  /\ UNCHANGED <<cfg, ret, counter, phase, data, iteration, id, timeoutHandle,
                 streamVars, outcome, locals, trace, measured, fnVars, envVars>>

\* an executeQuery that never sets a timer
ArmsNoTimer == FALSE

\* if (this.timeout) { ... setTimeout(...) }
ArmsTimer == cfg.timeout # 0

\* for (const id in test): await this.executeQuery(test[id])
Dispatch ==
  /\ pc = "for_id"
  /\ id < Len(QuerySet(cfg.querySets, CurrentName))
  /\ pc' = "fetch"
  /\ timeoutHandle' = ArmsTimer
  /\ outcome' = NoOutcome
  /\ locals' = NoLocals
  /\ trace' = Append(trace, Event("dispatch", phase, iteration, CurrentName, id))
  /\ since' = <<>>
  /\ UNCHANGED <<cfg, ret, counter, phase, data, loopVars,
                 streamVars, measured, fnVars, probe, abandoned, late>>

---------------------------------------------------------------------------
\* executeQuery: the transport, the stream handlers and the timer

\* fetchBindings resolved: the handlers are installed, hrstart is taken
FetchResolve ==
  /\ pc = "fetch"
  /\ pc' = "stream"
  /\ count' = 0
  /\ timestamps' = <<>>
  /\ elapsed' = 0
  /\ trackedTopology' = EmptyTopology
  /\ contributingDocuments' = <<>>
  /\ metadata' = <<>>
  /\ received' = NothingReceived
  /\ UNCHANGED <<cfg, ret, counter, phase, data, loopVars, timeoutHandle,
                 outcome, locals, trace, measured, fnVars, envVars>>

\* fetchBindings rejected
FetchReject ==
  /\ pc = "fetch"
  /\ cfg.faults
  /\ pc' = "settled"
  /\ outcome' = TransportError
  /\ UNCHANGED <<cfg, ret, counter, phase, data, loopVars, timeoutHandle,
                 streamVars, locals, trace, measured, fnVars, envVars>>

\* the clock that countTime(hrstart) reads advances
Tick ==
  /\ pc = "stream"
  /\ elapsed < cfg.ticks
  /\ elapsed' = elapsed + 1
  /\ UNCHANGED <<cfg, pc, ret, counter, phase, data, loopVars, timeoutHandle,
                 count, timestamps, trackedTopology, contributingDocuments,
                 metadata, received, outcome, locals, trace, measured, fnVars,
                 envVars>>

ReadMetadata == [httpRequests |-> 3]

\* results.on('metadata', ...)
OnMetadata ==
  /\ pc = "stream"
  /\ cfg.metadata
  /\ DOMAIN metadata = {}
  /\ metadata' = ReadMetadata
  /\ received' = [received EXCEPT !.metadataEvents = Append(@, ReadMetadata)]
  /\ UNCHANGED <<cfg, pc, ret, counter, phase, data, loopVars, timeoutHandle,
                 count, timestamps, elapsed, trackedTopology,
                 contributingDocuments, outcome, locals, trace, measured, fnVars, envVars>>

\* contributingDocuments put in front instead of at the end
UnshiftContributingDocuments(documents, group) == <<group>> \o documents

\* contributingDocuments.push(JSON.parse(data._sourceAttribution.value))
PushContributingDocuments(documents, group) == Append(documents, group)

\* a sample pushed whatever the option says
PushTimestampAlways(samples, time) == Append(samples, time)

\* if (this.timestampsRecording) { timestamps.push(this.countTime(hrstart)) }
PushTimestamp(samples, time) ==
  IF cfg.timestampsRecording THEN Append(samples, time) ELSE samples

\* results.on('data', ...); hasTopology: the row carries data._trackedTopology
OnData ==
  /\ pc = "stream"
  /\ RowsReceived < cfg.rows
  /\ \E hasTopology \in {FALSE, cfg.topology} :
       /\ IF hasTopology
          THEN /\ trackedTopology' = SnapshotAt(RowsReceived + 1)
               /\ contributingDocuments' =
                    PushContributingDocuments(contributingDocuments,
                                              SourceAttributionAt(RowsReceived + 1))
          ELSE UNCHANGED <<trackedTopology, contributingDocuments>>
       /\ received' = [received EXCEPT
                         !.rowTimes = Append(@, elapsed),
                         !.topologyRows = IF hasTopology
                                          THEN Append(@, RowsReceived + 1) ELSE @]
  /\ count' = count + 1
  /\ timestamps' = PushTimestamp(timestamps, elapsed)
  /\ UNCHANGED <<cfg, pc, ret, counter, phase, data, loopVars, timeoutHandle,
                 elapsed, metadata, outcome, locals, trace, measured, fnVars, envVars>>

\* results.on('error', ...)
OnError ==
  /\ pc = "stream"
  /\ cfg.faults
  /\ elapsed >= cfg.latency
  /\ pc' = "settled"
  /\ outcome' = StreamError
  /\ UNCHANGED <<cfg, ret, counter, phase, data, loopVars, timeoutHandle,
                 streamVars, locals, trace, measured, fnVars, envVars>>

\* results.on('end', ...)
OnEnd ==
  /\ pc = "stream"
  /\ elapsed >= cfg.latency
  /\ pc' = "settled"
  /\ timeoutHandle' = FALSE
  /\ outcome' = Resolved
  /\ UNCHANGED <<cfg, ret, counter, phase, data, loopVars,
                 streamVars, locals, trace, measured, fnVars, envVars>>

\* nothing aborts the transport operation when the timer wins the race: a
\* stream that is open then stays open until the endpoint closes it
Abandons == pc = "stream" /\ cfg.lingers

\* the timer fires while the race is undecided
OnTimeout ==
  /\ pc \in {"fetch", "stream"}
  /\ timeoutHandle
  /\ pc' = "settled"
  /\ timeoutHandle' = FALSE
  /\ outcome' = TimeoutError
  /\ abandoned' = IF Abandons THEN abandoned + 1 ELSE abandoned
  /\ UNCHANGED <<cfg, ret, counter, phase, data, loopVars,
                 streamVars, locals, trace, measured, fnVars, probe, since, late>>

\* the positions of the run at which an event of an abandoned stream is
\* handled: the thread of control is suspended in an await
Suspended ==
  pc \in {"fetch", "stream", "probe", "down_sleep", "up_sleep", "error_sleep", "sleep"}

\* an abandoned stream emits its end or error event: resolve or reject of a
\* settled promise, clearTimeout of a timer that has fired
AbandonedClose ==
  /\ Suspended
  /\ abandoned > 0
  /\ abandoned' = abandoned - 1
  /\ late' = IF abandoned = 1 THEN NoLateEvents ELSE late
  /\ UNCHANGED <<cfg, pc, ret, counter, phase, data, loopVars, timeoutHandle,
                 streamVars, outcome, locals, trace, measured, fnVars, probe, since>>

\* an abandoned stream emits a row: count++ in the closure of its call
AbandonedData ==
  /\ Suspended
  /\ abandoned > 0
  /\ late.count < MaxLate
  /\ late' = [late EXCEPT !.count = @ + 1]
  /\ UNCHANGED <<cfg, pc, ret, counter, phase, data, loopVars, timeoutHandle,
                 streamVars, outcome, locals, trace, measured, fnVars, probe,
                 abandoned, since>>

\* an abandoned stream emits its metadata: metadata = readMetadata in the
\* closure of its call
AbandonedMetadata ==
  /\ Suspended
  /\ abandoned > 0
  /\ late.metadata = <<>>
  /\ late' = [late EXCEPT !.metadata = ReadMetadata]
  /\ UNCHANGED <<cfg, pc, ret, counter, phase, data, loopVars, timeoutHandle,
                 streamVars, outcome, locals, trace, measured, fnVars, probe,
                 abandoned, since>>

---------------------------------------------------------------------------
\* executeQueries: the loop body after the await

\* the metric condition throws a TypeError, which nothing catches:
\* executeQueries rejects, and so does run()
BodyThrows ==
  /\ pc = "settled"
  /\ MetricConditionThrows(CatchOutcome(outcome))
  /\ pc' = "rejected"
  /\ locals' = WithMetrics(CatchOutcome(outcome),
                           [metricsCalculated |-> <<>>, calls |-> <<>>])
  /\ UNCHANGED <<cfg, ret, counter, phase, data, loopVars, timeoutHandle,
                 streamVars, outcome, trace, measured, fnVars, envVars>>

\* a loop body that goes straight on to the 5-second sleep
AfterBodyNoDelay(errorObject) == "sleep"

\* if (errorObject) { ... } await this.sleep(5_000)
AfterBody(errorObject) == IF errorObject THEN "error_sleep" ELSE "sleep"

\* catch, metric, merge
Body ==
  /\ pc = "settled"
  /\ ~MetricConditionThrows(CatchOutcome(outcome))
  /\ \E score \in Scores :
       LET l == CatchOutcome(outcome)
           mc == MetricsCalculated(l, score)
       IN /\ locals' = WithMetrics(l, mc)
          /\ data' = Merge(data, CurrentName, id, l, mc.metricsCalculated)
          /\ measured' = IF phase = "replication"
                         THEN Append(measured, Measurement(CurrentName, id, iteration, l))
                         ELSE measured
          /\ pc' = AfterBody(l.errorObject)
  /\ trace' = Append(trace, Event("finished", phase, iteration, CurrentName, id))
  /\ since' = <<Finished(CatchOutcome(outcome).errorObject)>>
  /\ UNCHANGED <<cfg, ret, counter, phase, loopVars, timeoutHandle,
                 streamVars, outcome, fnVars, probe, abandoned, late>>

\* if (errorObject) { log; await this.sleep(3_000); await this.waitUntilUp() }
ErrorDelay ==
  /\ pc = "error_sleep"
  /\ CallWaitUntilUp("sleep")
  /\ since' = since \o <<Logged, Slept(3000)>>
  /\ UNCHANGED <<cfg, phase, data, loopVars, timeoutHandle,
                 streamVars, outcome, locals, trace, measured, fnVars,
                 probe, abandoned, late>>

\* await this.sleep(5_000), and on to the next id
Sleep ==
  /\ pc = "sleep"
  /\ pc' = "for_id"
  /\ id' = id + 1
  /\ since' = Append(since, Slept(5000))
  /\ UNCHANGED <<cfg, ret, counter, phase, data, iteration, setPos, timeoutHandle,
                 streamVars, outcome, locals, trace, measured, fnVars,
                 probe, abandoned, late>>

---------------------------------------------------------------------------
Next ==
  \/ RunWaitUntilUp \/ IsUp \/ ProbeFetchResolve \/ ProbeFetchReject
  \/ ProbeError \/ ProbeEnd \/ ProbeTimeout \/ IsUpReturn
  \/ WaitSleep \/ WaitReturn
  \/ RunWarmup \/ RunReplication \/ RunOnStop \/ RunAverage
  \/ ForIteration \/ ForName \/ ForIdDone \/ Dispatch
  \/ FetchResolve \/ FetchReject \/ Tick \/ OnMetadata \/ OnData
  \/ OnError \/ OnEnd \/ OnTimeout
  \/ AbandonedData \/ AbandonedMetadata \/ AbandonedClose
  \/ BodyThrows \/ Body \/ ErrorDelay \/ Sleep

Spec == Init /\ [][Next]_vars

(***************************************************************************)
(* Properties of the execution engine                                      *)
(***************************************************************************)
\* the loop body has just run on the settled executeQuery call
BodyRan == pc \in {"error_sleep", "sleep", "rejected"}

CurrentKey == Key(CurrentName, id)

MeasuredFor(name, idString) ==
  SelectSeq(measured, LAMBDA m : m.name = name /\ m.id = idString)

Times(ms) == [i \in 1..Len(ms) |-> ms[i].time]

\* C1: when a stream emits n rows and then an error event, executeQueries
\* stores, on the first iteration of that query, a record with error = true
\* and count = n (the partial row count is kept), for every n >= 0.
C1_PartialCountKept ==
  (BodyRan /\ outcome.kind = "error" /\ iteration = 0) =>
     /\ CurrentKey \in DOMAIN data
     /\ data[CurrentKey].error
     /\ data[CurrentKey].count = outcome.partialOutput.count

\* C2: a failure of a single query never aborts the run: whatever way
\* executeQuery settles, the loop body records it and goes on, and
\* executeQueries never terminates with an exception.
C2_NeverAborts ==
  /\ pc # "rejected"
  /\ pc = "settled" => ~MetricConditionThrows(CatchOutcome(outcome))

\* the (query-set name, query index) pairs executeQueries attempts
Attempted ==
  UNION {{<<cfg.querySets[i].name, j>> :
            j \in 0..(Len(cfg.querySets[i].queries) - 1)} :
          i \in 1..Len(cfg.querySets)}

ExecuteQueriesCompleted == pc \in {"onStart", "onStop"}

\* C3: after executeQueries completes with iterations >= 1 the result map
\* holds exactly one record per attempted (name, id) pair: no two distinct
\* pairs share a record, and a pair's record carries its name and id.
C3_OneRecordPerPair ==
  (ExecuteQueriesCompleted /\ Iterations >= 1) =>
     /\ \A p \in Attempted :
          /\ Key(p[1], p[2]) \in DOMAIN data
          /\ data[Key(p[1], p[2])].name = p[1]
          /\ data[Key(p[1], p[2])].id = ToString(p[2])
     /\ \A p, q \in Attempted : p # q => Key(p[1], p[2]) # Key(q[1], q[2])
     /\ Cardinality(DOMAIN data) = Cardinality(Attempted)

\* C4: when the timer fires before the stream's end event, executeQuery
\* fails with a timeout error without partial output, and the loop body
\* makes it a zero measurement (count 0, time 0, no timestamps, four -1
\* metric slots, error set), whatever the stream had delivered.
C4_TimeoutIsZeroMeasurement ==
  outcome.kind = "timeout" =>
     /\ "partialOutput" \notin DOMAIN outcome
     /\ pc # "rejected"
     /\ pc \notin {"fetch", "stream", "settled"} =>
          /\ locals.count = 0
          /\ locals.time = 0
          /\ locals.timestamps = <<>>
          /\ locals.metricsCalculated = <<-1, -1, -1, -1>>
          /\ locals.calls = <<>>
          /\ locals.errorObject
     /\ pc = "error_sleep" =>
          /\ data[CurrentKey].error
          /\ phase = "replication" =>
               /\ measured[Len(measured)].count = 0
               /\ measured[Len(measured)].time = 0
               /\ measured[Len(measured)].timestamps = <<>>
               /\ measured[Len(measured)].error

\* rows had arrived when the timer fired, and the loop body has run
C4_Witness ==
  /\ outcome.kind = "timeout"
  /\ pc = "error_sleep"
  /\ count > 0
  /\ timestamps # <<>>
  /\ elapsed > 0

\* C5: every record returned by run() with replication R >= 1 has
\* time = floor((t_1 + ... + t_R) / R), t_i being the time measured for
\* that record's query in replication iteration i.
C5_AveragedTime ==
  (pc = "done" /\ cfg.replication >= 1) =>
     \A key \in DOMAIN data :
        LET ms == MeasuredFor(data[key].name, data[key].id)
        IN /\ Len(ms) = cfg.replication
           /\ data[key].time = Floor(SumSeq(Times(ms)), cfg.replication)

\* C6: every entry timestamps[i] of a record returned by run() is
\* floor(sum / R) of the i-th timestamps of all R replication iterations of
\* that query: every retained position was summed over all R iterations.
C6_AveragedTimestamps ==
  (pc = "done" /\ cfg.replication >= 1) =>
     \A key \in DOMAIN data :
        LET ms == MeasuredFor(data[key].name, data[key].id)
        IN \A i \in 1..Len(data[key].timestamps) :
             /\ Len(ms) = cfg.replication
             /\ \A j \in 1..Len(ms) : Len(ms[j].timestamps) >= i
             /\ data[key].timestamps[i] =
                  Floor(SumSeq([j \in 1..Len(ms) |-> ms[j].timestamps[i]]),
                        cfg.replication)

\* C7: once the loop body has run, the metric list has exactly four
\* slots; with a row count of 0 or no provenance group (also after a failed
\* execution) all four are -1 and the evaluator was not called; with both
\* positive, slot 0 is the all-results score and slots 1..3 are the
\* first-k results for k = 1, 2, 4.
C7_FourMetricSlots ==
  BodyRan =>
     LET groups == IF "contributingDocuments" \in locals.undefinedVars THEN 0
                   ELSE Len(locals.contributingDocuments)
     IN /\ Len(locals.metricsCalculated) = 4
        /\ (locals.count = 0 \/ groups = 0) =>
             /\ locals.metricsCalculated = <<-1, -1, -1, -1>>
             /\ locals.calls = <<>>
        /\ (locals.count > 0 /\ groups > 0) =>
             /\ locals.metricsCalculated[1] >= 0
             /\ Head(locals.calls) = 0
             /\ \A i \in 1..3 :
                  IF groups > KToCheck[i]
                  THEN locals.metricsCalculated[i + 1] >= 0
                  ELSE locals.metricsCalculated[i + 1] = -1

\* the dispatches of one executeQueries call, in the order they were made
Dispatches(ph) == SelectSeq(trace, LAMBDA e : e.ev = "dispatch" /\ e.phase = ph)

IterationsOf(ph) == IF ph = "warmup" THEN cfg.warmup ELSE cfg.replication

InsertedAt(name) == CHOOSE i \in 1..Len(cfg.querySets) : cfg.querySets[i].name = name

IndexValue(name) == CHOOSE n \in 0..MaxIndex : ToString(n) = name

\* name a comes before name b in the querySets object's insertion order
InsertedBefore(a, b) == InsertedAt(a) < InsertedAt(b)

\* name a comes before name b in the enumeration of the querySets object:
\* array-index names first, ascending, then the others as inserted
EnumeratedBefore(a, b) ==
  IF IsArrayIndex(a) /\ IsArrayIndex(b) THEN IndexValue(a) < IndexValue(b)
  ELSE IF IsArrayIndex(a) # IsArrayIndex(b) THEN IsArrayIndex(a)
  ELSE InsertedAt(a) < InsertedAt(b)

\* the loop nest dispatches e2 right after e1: same set and the next query,
\* or the first query of a later set of the same iteration with only empty
\* sets in between, or the same from the last set into the next iteration
NameBefore(order, a, b) ==
  IF order = "insertion" THEN InsertedBefore(a, b) ELSE EnumeratedBefore(a, b)

Follows(e1, e2, order) ==
  LET names == {cfg.querySets[i].name : i \in 1..Len(cfg.querySets)}
      size(n) == Len(QuerySet(cfg.querySets, n))
      lastOf(e) == e.id = size(e.name) - 1
      firstOf(e) == e.id = 0
      Before(a, b) == NameBefore(order, a, b)
      emptyBetween(a, b) ==
        \A n \in names : (Before(a, n) /\ Before(n, b)) => size(n) = 0
      emptyAfter(a) == \A n \in names : Before(a, n) => size(n) = 0
      emptyBefore(b) == \A n \in names : Before(n, b) => size(n) = 0
  IN \/ /\ e2.iteration = e1.iteration
        /\ e2.name = e1.name
        /\ e2.id = e1.id + 1
     \/ /\ e2.iteration = e1.iteration
        /\ Before(e1.name, e2.name)
        /\ lastOf(e1) /\ firstOf(e2)
        /\ emptyBetween(e1.name, e2.name)
     \/ /\ e2.iteration = e1.iteration + 1
        /\ lastOf(e1) /\ firstOf(e2)
        /\ emptyAfter(e1.name) /\ emptyBefore(e2.name)

DispatchOrder(order) ==
  \A ph \in {"warmup", "replication"} :
     LET ds == Dispatches(ph)
         names == {cfg.querySets[i].name : i \in 1..Len(cfg.querySets)}
         size(n) == Len(QuerySet(cfg.querySets, n))
         Before(a, b) == NameBefore(order, a, b)
     IN /\ \A i \in 1..Len(ds) :
             /\ ds[i].iteration \in 0..(IterationsOf(ph) - 1)
             /\ <<ds[i].name, ds[i].id>> \in Attempted
        /\ ds # <<>> =>
             /\ ds[1].iteration = 0 /\ ds[1].id = 0
             /\ \A n \in names : Before(n, ds[1].name) => size(n) = 0
        /\ \A i \in 1..(Len(ds) - 1) : Follows(ds[i], ds[i + 1], order)
        /\ (phase = ph /\ ExecuteQueriesCompleted) =>
             \A it \in 0..(IterationsOf(ph) - 1) : \A p \in Attempted :
                Cardinality({i \in 1..Len(ds) :
                   /\ ds[i].iteration = it
                   /\ ds[i].name = p[1]
                   /\ ds[i].id = p[2]}) = 1

\* C9 as stated: queries are dispatched iteration by iteration, within an
\* iteration query set by query set in the insertion order of the names,
\* within a set in list order; each (name, id) once per iteration.
C9_InsertionOrder == DispatchOrder("insertion")

\* C9 as amended: the same with the query sets taken in the enumeration
\* order of the querySets object (array-index names first in ascending
\* numeric order, then the other names in insertion order); the dispatches
\* made so far are a prefix of that order, and all of it once
\* executeQueries has completed.
C9_EnumerationOrder == DispatchOrder("enumeration")

\* a completed call whose sets were dispatched 2, 10, b although inserted b, 10, 2
C9_Witness ==
  /\ pc = "onStop"
  /\ LET ds == Dispatches("replication")
     IN /\ Len(ds) = 3
        /\ ds[1].name = "2" /\ ds[2].name = "10" /\ ds[3].name = "b"
        /\ InsertedBefore("b", "10") /\ InsertedBefore("10", "2")

Positions(ev) == {i \in 1..Len(trace) : trace[i].ev = ev}

PhasePositions(ph) == {i \in 1..Len(trace) : trace[i].phase = ph}

FirstMeasured(key) ==
  LET ms == SelectSeq(measured, LAMBDA m : m.name \o m.id = key) IN ms[1]

\* C10: run() passes through wait-until-up, warm-up, onStart, replication,
\* onStop and averaging in this order: every dispatch follows the return of
\* waitUntilUp, onStart comes after every warm-up query has finished and
\* before the first replication dispatch, onStop after every replication
\* query has finished and before the averaging, no configured phase is
\* left out, and the records of the returned map stem from replication
\* measurements only.
C10_PhaseOrder ==
  /\ trace # <<>> => trace[1].ev = "up" /\ Positions("up") = {1}
  /\ \A i \in PhasePositions("warmup") : \A j \in PhasePositions("replication") : i < j
  /\ Cardinality(Positions("onStart")) <= 1
  /\ Cardinality(Positions("onStop")) <= 1
  /\ Cardinality(Positions("averaged")) <= 1
  /\ \A s \in Positions("onStart") :
       /\ trace[s - 1].ev \in {"up", "finished"}
       /\ \A i \in PhasePositions("warmup") : i < s
       /\ \A j \in PhasePositions("replication") : s < j
  /\ \A s \in Positions("onStop") :
       /\ trace[s - 1].ev \in {"up", "onStart", "finished"}
       /\ \A j \in PhasePositions("replication") \cup PhasePositions("warmup")
                   \cup Positions("onStart") : j < s
  /\ \A a \in Positions("averaged") :
       /\ a = Len(trace)
       /\ \A s \in Positions("onStop") : s < a
       /\ cfg.onStop => Positions("onStop") # {}
  /\ (cfg.onStart /\ (PhasePositions("replication") # {} \/ pc \in {"onStop", "average", "done"}))
       => Positions("onStart") # {}
  /\ pc = "done" =>
       /\ Positions("averaged") # {}
       /\ Cardinality({i \in PhasePositions("warmup") : trace[i].ev = "finished"})
            = cfg.warmup * Cardinality(Attempted)
       /\ Cardinality({i \in PhasePositions("replication") : trace[i].ev = "finished"})
            = cfg.replication * Cardinality(Attempted)
  /\ phase = "replication" =>
       \A key \in DOMAIN data :
          /\ \E i \in 1..Len(measured) : measured[i].name \o measured[i].id = key
          /\ data[key].count = FirstMeasured(key).count
          /\ data[key].name = FirstMeasured(key).name

\* a finished run with warm-up measurements, both hooks and a returned record
C10_Witness ==
  /\ pc = "done"
  /\ cfg.warmup >= 1 /\ cfg.onStart /\ cfg.onStop
  /\ \E i \in PhasePositions("warmup") : trace[i].ev = "finished"
  /\ DOMAIN data # {}

\* the history of one waitUntilUp call: failed probes, each followed by a
\* 1-second sleep, then one successful probe and the 5-second sleep
WaitUntilUpHistory(s) ==
  /\ Len(s) >= 2
  /\ Len(s) % 2 = 0
  /\ s[Len(s) - 1] = Probed("up")
  /\ s[Len(s)] = Slept(5000)
  /\ \A i \in 1..(Len(s) - 2) :
       s[i] = IF i % 2 = 1 THEN Probed("down") ELSE Slept(1000)

\* a query has finished and the loops are about to dispatch the next one,
\* or to find that none is left
BeforeNextDispatch ==
  /\ pc \in {"for_id", "for_name", "for_iteration", "onStart", "onStop", "average", "done"}
  /\ since # <<>>
  /\ Head(since).ev = "finished"

\* the guard of the next dispatch holds
DispatchEnabled == pc = "for_id" /\ id < Len(QuerySet(cfg.querySets, CurrentName))

\* C11: between a query that raised an error and the next dispatch lie, in
\* this order, the log line, a 3-second sleep, a complete waitUntilUp() (so
\* a successful probe) and the 5-second sleep; between a query that
\* succeeded and the next dispatch lies exactly the 5-second sleep.
C11_DelayBeforeNextDispatch ==
  /\ (pc \in {"error_sleep", "sleep"} /\ since # <<>>) =>
        /\ Head(since).ev = "finished"
        /\ Head(since).arg = 1 <=> outcome.kind # "resolve"
  /\ pc = "error_sleep" => since = <<Finished(TRUE)>>
  /\ BeforeNextDispatch =>
        IF Head(since).arg = 1
        THEN /\ Len(since) >= 6
             /\ since[2] = Logged
             /\ since[3] = Slept(3000)
             /\ WaitUntilUpHistory(SubSeq(since, 4, Len(since) - 1))
             /\ since[Len(since)] = Slept(5000)
        ELSE since = <<Finished(FALSE), Slept(5000)>>

\* the next query is about to be dispatched after a failed one, the
\* endpoint having failed a probe in between
C11_Witness ==
  /\ BeforeNextDispatch
  /\ DispatchEnabled
  /\ Head(since).arg = 1
  /\ \E i \in 1..Len(since) : since[i] = Probed("down")

Waiting == pc \in {"isUp", "probe", "down_sleep", "up_sleep"}

C12_ProbeOutcome ==
  /\ probe.value = "up" =>
        probe.events # <<>> /\ Head(probe.events) = "end"
  /\ probe.value = "down" =>
        probe.events # <<>> /\ Head(probe.events) \in {"error", "reject", "timeout"}
  /\ pc = "up_sleep" => probe.value = "up"
  /\ pc = "down_sleep" => probe.value = "down"
  /\ Waiting => ret \in {"warmup", "sleep"}
  /\ pc = "rejected" => ret = "none"
  /\ (Waiting /\ pc # "up_sleep") =>
        /\ Len(since) >= 2 * counter
        /\ \A i \in 1..counter :
             /\ since[Len(since) - (IF pc = "down_sleep" THEN 1 ELSE 0) - 2 * i + 1] = Probed("down")
             /\ since[Len(since) - (IF pc = "down_sleep" THEN 1 ELSE 0) - 2 * i + 2] = Slept(1000)
  /\ pc = "warmup" => WaitUntilUpHistory(since)
  /\ (pc = "sleep" /\ since # <<>> /\ Head(since).arg = 1) =>
        WaitUntilUpHistory(SubSeq(since, 4, Len(since)))

\* C12: isUp() resolves true only when the end event of the probe stream
\* is the first of end, error, transport rejection and the 10-second timer,
\* and false otherwise, and never rejects; waitUntilUp() sleeps 1 second
\* after each failed probe, returns only after a successful probe and the
\* 5-second sleep, and never fails; with an endpoint that is up for good
\* from some probe on, a waitUntilUp() call eventually returns.
C12_WaitUntilUp == []C12_ProbeOutcome /\ (Waiting ~> ~Waiting)

\* waitUntilUp returned after a probe that timed out and one that succeeded
C12_Witness ==
  /\ pc = "warmup"
  /\ Len(since) = 4
  /\ since[1] = Probed("down")
  /\ since[3] = Probed("up")

\* timers fire and continuations run (the event loop); the transport and
\* the probe stream answer once the endpoint is up;
\* every step of these actions changes pc or probe
waitVars == <<pc, probe>>

Fairness ==
  /\ WF_waitVars(IsUp) /\ WF_waitVars(IsUpReturn)
  /\ WF_waitVars(WaitSleep) /\ WF_waitVars(WaitReturn)
  /\ WF_waitVars(ProbeTimeout)
  /\ WF_waitVars(OnTimeout)
  /\ WF_waitVars(ProbeFetchResolve /\ ~MayFail)
  /\ WF_waitVars(ProbeEnd /\ ~MayFail)

\* waitUntilUp does not depend on the options: the runs with recorded
\* timestamps are left out
InitLive == Init /\ ~cfg.timestampsRecording

SpecLive == InitLive /\ [][Next]_vars /\ Fairness

\* transport streams of benchmark queries that are open: the one of the
\* query being awaited and those abandoned by the timer
StreamsInFlight == (IF pc = "stream" THEN 1 ELSE 0) + abandoned

KLists == UNION {[1..n -> KValues] : n \in 0..MaxKs}

\* what a stream that delivered n topology-carrying rows leaves behind
TopologyAfter(n) == IF n = 0 THEN EmptyTopology ELSE SnapshotAt(n)

ContributingDocumentsAfter(n) == [g \in 1..n |-> SourceAttributionAt(g)]

FirstKInputs ==
  {[op |-> "firstK", kToCheck |-> ks, topology |-> TopologyAfter(n),
    contributingDocuments |-> ContributingDocumentsAfter(n), score |-> sc] :
     ks \in KLists, n \in 0..MaxGroups, sc \in Scores}

\* zero-indexed edges [s, t] and [s, t, w] between neighbouring documents
Edges ==
  {<<n, n + 1>> : n \in 0..1} \cup {<<n, n + 1, w>> : n \in 0..1, w \in 0..MaxWeight}

EdgeLists == UNION {[1..n -> Edges] : n \in 0..MaxEdges}

MetadataArrays == UNION {[1..n -> [hasParent : BOOLEAN]] : n \in 0..MaxNodes}

Reverse(list) == [i \in 1..Len(list) |-> list[Len(list) - i + 1]]

Rotate(list) == IF list = <<>> THEN <<>> ELSE Tail(list) \o <<Head(list)>>

\* a topology whose four edge lists hold the edges of list in different orders
TopologyOf(list, nodeMetaData) ==
  [nodeToIndex |-> [d \in {DocName(i) : i \in 0..2} |->
                      CHOOSE i \in 0..2 : DocName(i) = d],
   edgeListUnWeighted |-> list,
   edgeListDocumentSize |-> Rotate(list),
   edgeListRequestTime |-> Reverse(list),
   metadataNode |-> nodeMetaData,
   traversalOrderEdges |-> Reverse(Rotate(list))]

MetricTypes == {"unweighted", "httpRequestTime", "documentSize"}

PrepareInputs ==
  {[op |-> "prepare", topology |-> TopologyOf(list, md),
    contributingDocuments |-> <<<<DocName(1)>>, <<DocName(0), DocName(2)>>>>,
    metricType |-> mt] :
     list \in EdgeLists, md \in MetadataArrays, mt \in MetricTypes}

\* template names; the last one is also a property of Object.prototype
Templates == {"T1", "T2", "constructor"}

\* the measurement part of a result: error flag and, when it is a number,
\* httpRequests
Measurements ==
  [error : BOOLEAN, httpRequests : {10, 20}] \cup [error : BOOLEAN]

\* the i-th result of a sequence benchmark: query q<i-1> of template t
ResultOf(i, t, m) ==
  [name |-> "q" \o ToString(i - 1), sequenceElement |-> [template |-> t]] @@ m

\* the same result as handed to groupResults: template is set
TemplatedResultOf(i, t, m) == SetField(ResultOf(i, t, m), "template", t)

\* n results for aggregateResults, the i-th of template ts[i] with the
\* measurements ms[i]
ResultList(n, ts, ms) == [i \in 1..n |-> ResultOf(i, ts[i], ms[i])]

\* n error-free results for groupResults
TemplatedResultList(n, ts) ==
  [i \in 1..n |-> TemplatedResultOf(i, ts[i], [error |-> FALSE])]

AggregatorInput ==
  \E n \in 0..MaxResults : \E ts \in [1..n -> Templates] :
     \/ \E ms \in [1..n -> Measurements] :
          fnIn = [op |-> "aggregate", results |-> ResultList(n, ts, ms)]
     \/ fnIn = [op |-> "group", results |-> TemplatedResultList(n, ts)]

\* the top-level field names of a metadata file
FieldNames == {"template", "sequenceElement", "sequenceElements", ""}

\* the values of a top-level field: a single value, or an array of 0 to
\* MaxElements distinct elements
FieldValues ==
  {Single(7)} \cup {ArrayOf([j \in 1..n |-> Single(j)]) : n \in 0..MaxElements}

\* a parsed metadata file: up to MaxFields fields with distinct names
LoaderInput ==
  \E n \in 0..MaxFields : \E keys \in [1..n -> FieldNames] :
     /\ \A i, j \in 1..n : keys[i] = keys[j] => i = j
     /\ \E values \in [1..n -> FieldValues] :
          fnIn = [op |-> "load",
                  parsed |-> [i \in 1..n |-> [key |-> keys[i], value |-> values[i]]]]

\* the values of a record's error field, when it has one
ErrorValues == {JsBoolean(TRUE), JsBoolean(FALSE), JsError("timeout")}

\* the i-th record handed to the serializer
SerializedRecords(i) ==
  LET base == [name : {JsString("q" \o ToString(i - 1))},
               time : {JsNumber(0), JsNumber(12)}]
  IN base \cup {SetField(r, "error", e) : r \in base, e \in ErrorValues}

\* the two sources of ResultSerializerRaw
SerializerSources == {"part_002", "part_003"}

SerializerInput ==
  \E n \in 0..MaxResults : \E source \in SerializerSources :
     \E results \in [1..n -> UNION {SerializedRecords(i) : i \in 1..n}] :
        /\ \A i \in 1..n : results[i] \in SerializedRecords(i)
        /\ fnIn = [op |-> "serialize", source |-> source, results |-> results]

InitFn ==
  /\ cfg = MetricScenario
  /\ pc = "function"
  /\ ret = "none"
  /\ counter = 0
  /\ phase = "none"
  /\ data = <<>>
  /\ iteration = 0
  /\ setPos = 1
  /\ id = 0
  /\ timeoutHandle = FALSE
  /\ count = 0
  /\ timestamps = <<>>
  /\ elapsed = 0
  /\ trackedTopology = EmptyTopology
  /\ contributingDocuments = <<>>
  /\ metadata = <<>>
  /\ outcome = NoOutcome
  /\ locals = NoLocals
  /\ trace = <<>>
  /\ measured = <<>>
  /\ \/ fnIn \in FirstKInputs \cup PrepareInputs
     \/ AggregatorInput
     \/ LoaderInput
     \/ SerializerInput
  /\ fnOut = [op |-> "none"]
  /\ probe = IdleProbe
  /\ abandoned = 0
  /\ since = <<>>
  /\ received = NothingReceived
  /\ late = NoLateEvents

\* calculateMetricFirstKResults(kToCheck, topology, contributingDocuments, "unweighted", ...)
ApplyFirstK ==
  /\ fnIn.op = "firstK"
  /\ fnOut.op = "none"
  /\ fnOut' = [op |-> "firstK",
               result |-> CalculateMetricFirstKResults(fnIn.kToCheck, fnIn.topology,
                            fnIn.contributingDocuments, "unweighted", fnIn.score)]
  /\ UNCHANGED <<runVars, fnIn>>

\* prepareMetricInput(trackedTopology, contributingDocuments, metricType)
ApplyPrepare ==
  /\ fnIn.op = "prepare"
  /\ fnOut.op = "none"
  /\ fnOut' = [op |-> "prepare",
               result |-> PrepareMetricInput(fnIn.topology,
                            fnIn.contributingDocuments, fnIn.metricType)]
  /\ UNCHANGED <<runVars, fnIn>>

\* groupResults(results)
ApplyGroup ==
  /\ fnIn.op = "group"
  /\ fnOut.op = "none"
  /\ LET out == GroupResults(fnIn.results)
     IN fnOut' = [op |-> "group", threw |-> out.threw, results |-> out.results,
                  templates |-> out.templates]
  /\ UNCHANGED <<runVars, fnIn>>

Aggregated(out, calls, first) ==
  [op |-> "aggregate", calls |-> calls, threw |-> out.threw,
   results |-> out.results, groupedResults |-> out.groupedResults,
   aggregateResults |-> out.aggregateResults, first |-> first]

\* aggregateResults(results)
ApplyAggregate ==
  /\ fnIn.op = "aggregate"
  /\ fnOut.op = "none"
  /\ LET out == AggregateResults(fnIn.results)
     IN fnOut' = Aggregated(out, 1, out)
  /\ UNCHANGED <<runVars, fnIn>>

\* aggregateResults(results) once more, on the same result objects
ApplyAggregateAgain ==
  /\ fnOut.op = "aggregate"
  /\ fnOut.calls = 1
  /\ ~fnOut.threw
  /\ fnOut' = Aggregated(AggregateResults(fnOut.results), 2, fnOut.first)
  /\ UNCHANGED <<runVars, fnIn>>

\* loadQueriesMetadata() on a directory holding one metadata file
ApplyLoad ==
  /\ fnIn.op = "load"
  /\ fnOut.op = "none"
  /\ LET out == LoadQueriesMetadataFile(<<>>, fnIn.parsed)
     IN fnOut' = [op |-> "load", threw |-> out.threw,
                  queryMetadata |-> out.queryMetadata]
  /\ UNCHANGED <<runVars, fnIn>>

\* serialize(path, results), and JSON.parse of the file written
ApplySerialize ==
  /\ fnIn.op = "serialize"
  /\ fnOut.op = "none"
  /\ LET written == IF fnIn.source = "part_002"
                    THEN SerializeRaw(fnIn.results)
                    ELSE SerializeRawErrorMessages(fnIn.results)
     IN fnOut' = [op |-> "serialize", results |-> fnIn.results,
                  written |-> written, parsed |-> Parse(written)]
  /\ UNCHANGED <<runVars, fnIn>>

NextFn ==
  \/ ApplyFirstK \/ ApplyPrepare
  \/ ApplyGroup \/ ApplyAggregate \/ ApplyAggregateAgain
  \/ ApplyLoad
  \/ ApplySerialize

SpecFn == InitFn /\ [][NextFn]_vars

\* C8: calculateMetricFirstKResults returns one slot per entry of kToCheck,
\* in order; the evaluator is invoked for k exactly when the number of
\* contributing-node groups is greater than k, the slot being its result,
\* and otherwise the slot is -1 and the evaluator is not called.
C8_FirstKSlots ==
  fnOut.op = "firstK" =>
     LET ks == fnIn.kToCheck
         n == Len(fnIn.contributingDocuments)
         r == fnOut.result
     IN /\ Len(r.metricsFirstK) = Len(ks)
        /\ \A i \in 1..Len(ks) :
             r.metricsFirstK[i] = IF n > ks[i] THEN fnIn.score[ks[i]] ELSE -1
        /\ r.calls = SelectSeq(ks, LAMBDA k : n > k)

\* kToCheck = [1, 2, 4] and 3 groups: k = 4 gives -1, k = 1 and 2 the evaluator's scores
C8_Witness ==
  /\ fnOut.op = "firstK"
  /\ fnIn.kToCheck = <<1, 2, 4>>
  /\ Len(fnIn.contributingDocuments) = 3
  /\ fnOut.result.metricsFirstK = <<fnIn.score[1], fnIn.score[2], -1>>
  /\ fnOut.result.calls = <<1, 2>>

\* the edge list prepareMetricInput converts for a metric type
Selected(topology, metricType) ==
  CASE metricType = "unweighted" -> topology.edgeListUnWeighted
    [] metricType = "httpRequestTime" -> topology.edgeListRequestTime
    [] metricType = "documentSize" -> topology.edgeListDocumentSize

\* (s, t, w) becomes (s+1, t+1, w), and (s, t) becomes (s+1, t+1, 1)
Reindexed(edgeList, out) ==
  /\ Len(out) = Len(edgeList)
  /\ \A i \in 1..Len(edgeList) :
       out[i] = <<edgeList[i][1] + 1, edgeList[i][2] + 1,
                  IF Len(edgeList[i]) >= 3 THEN edgeList[i][3] ELSE 1>>

\* C14: every triple (s, t, w) of the selected edge list and of
\* traversalOrderEdges comes out, at the same position, as (s+1, t+1, w)
\* for every weight w, and as (s+1, t+1, 1) when the weight is omitted;
\* length and order of the lists are preserved.
C14_WeightUnchanged ==
  fnOut.op = "prepare" =>
     /\ Reindexed(Selected(fnIn.topology, fnIn.metricType), fnOut.result.edgeList)
     /\ Reindexed(fnIn.topology.traversalOrderEdges, fnOut.result.traversedPath)

IsFalsy(b) == ~b

\* C15: prepareMetricInput returns as roots exactly the values k+1, in
\* increasing order, for the indices k of the metadata array whose
\* hasParent is falsy, and numNodes equal to the array's length; with
\* every hasParent true the roots are empty.
C15_Roots ==
  fnOut.op = "prepare" =>
     LET md == fnIn.topology.metadataNode
         roots == fnOut.result.roots
     IN /\ fnOut.result.numNodes = Len(md)
        /\ {roots[i] : i \in 1..Len(roots)} =
             {k + 1 : k \in {j \in 0..(Len(md) - 1) : IsFalsy(md[j + 1].hasParent)}}
        /\ \A i \in 1..(Len(roots) - 1) : roots[i] < roots[i + 1]
        /\ (\A j \in 1..Len(md) : md[j].hasParent) => roots = <<>>

\* a root at position 2 behind a node with a parent, and an array without roots
C15_Witness ==
  /\ fnOut.op = "prepare"
  /\ Len(fnIn.topology.metadataNode) = 2
  /\ fnIn.topology.metadataNode[1].hasParent
  /\ ~fnIn.topology.metadataNode[2].hasParent
  /\ fnOut.result.roots = <<2>>

(***************************************************************************)
(* Properties of the aggregator                                            *)
(***************************************************************************)
\* a first aggregateResults call has returned
Returned == fnOut.op = "aggregate" /\ ~fnOut.first.threw

InputTemplates ==
  {fnIn.results[i].sequenceElement.template : i \in 1..Len(fnIn.results)}

\* the positions of the results of template t, in input order
MembersOf(t) ==
  SelectSeq([i \in 1..Len(fnIn.results) |-> i],
            LAMBDA i : fnIn.results[i].sequenceElement.template = t)

\* the httpRequests values of the error-free members of template t
ErrorFreeValues(t) ==
  LET members == SelectSeq(MembersOf(t),
                   LAMBDA i : ~fnIn.results[i].error /\ IsNumber(fnIn.results[i]))
  IN [j \in 1..Len(members) |-> fnIn.results[members[j]].httpRequests]

\* the error-free members of template t whose httpRequests is no number
ErrorFreeNonNumbers(t) ==
  SelectSeq(MembersOf(t),
            LAMBDA i : ~fnIn.results[i].error /\ ~IsNumber(fnIn.results[i]))

AggregatesOf(out, t) ==
  {a \in 1..Len(out.aggregateResults) : out.aggregateResults[a].name = t}

AggregateOf(out, t) == out.aggregateResults[CHOOSE a \in AggregatesOf(out, t) : TRUE]

SumOfSquares(vs) == SumSeq([j \in 1..Len(vs) |-> vs[j] * vs[j]])

\* the aggregate's four fields are the statistics of the values vs
StatisticsOf(a, vs) ==
  LET n == Len(vs)
      sum == SumSeq(vs)
  IN /\ StatisticsFields \subseteq DOMAIN a
     /\ a.httpRequests.den # 0
     /\ a.httpRequests.num * n = sum * a.httpRequests.den
     /\ \E j \in 1..n : a.httpRequestsMin = vs[j]
     /\ \A j \in 1..n : a.httpRequestsMin <= vs[j]
     /\ \E j \in 1..n : a.httpRequestsMax = vs[j]
     /\ \A j \in 1..n : a.httpRequestsMax >= vs[j]
     /\ ~a.httpRequestsStd.nan
     /\ a.httpRequestsStd.den # 0
     /\ a.httpRequestsStd.num * (n * n) =
          (n * SumOfSquares(vs) - sum * sum) * a.httpRequestsStd.den

\* C16: for every template group with an error-free member, the aggregate's
\* httpRequests is the mean, httpRequestsMin / httpRequestsMax the minimum /
\* maximum and httpRequestsStd the population standard deviation (variance
\* = mean of the squares minus the square of the mean) of the httpRequests
\* values of the group's error-free members; for [10, 20, error] they are
\* 15, 10, 20 and 5.
C16_HttpRequestsStatistics ==
  Returned =>
     \A t \in InputTemplates :
        LET vs == ErrorFreeValues(t)
            a == AggregateOf(fnOut.first, t)
        IN /\ vs # <<>> => StatisticsOf(a, vs)
           /\ (vs = <<10, 20>> /\ ErrorFreeNonNumbers(t) = <<>>) =>
                /\ a.httpRequests.num = 15 * a.httpRequests.den
                /\ a.httpRequestsMin = 10
                /\ a.httpRequestsMax = 20
                /\ a.httpRequestsStd.num = 5 * 5 * a.httpRequestsStd.den

\* the four statistics fields of the aggregate of template t, if any
HttpFields(out, t) ==
  IF AggregatesOf(out, t) # {} /\ StatisticsFields \subseteq DOMAIN AggregateOf(out, t)
  THEN [attached |-> TRUE,
        fields |-> [f \in StatisticsFields |-> AggregateOf(out, t)[f]]]
  ELSE [attached |-> FALSE]

\* C17: a result whose httpRequests is not a number changes none of the
\* four statistics of its group, with or without its error flag: they are
\* those aggregateResults gives for the results without it.
C17_NonNumbersExcluded ==
  Returned =>
     \A t \in InputTemplates :
        HttpFields(fnOut.first, t) =
          HttpFields(AggregateResults(SelectSeq(fnIn.results, IsNumber)), t)

\* C18: a group without an error-free member with a numeric httpRequests
\* gets none of httpRequests, httpRequestsMin, httpRequestsMax and
\* httpRequestsStd, and its aggregate is in the output all the same.
C18_NoStatisticsWithoutData ==
  Returned =>
     \A t \in InputTemplates :
        /\ Cardinality(AggregatesOf(fnOut.first, t)) = 1
        /\ ErrorFreeValues(t) = <<>> =>
             DOMAIN AggregateOf(fnOut.first, t) \cap StatisticsFields = {}

\* a group of failed and non-numeric results only, next to a group with data
C18_Witness ==
  /\ Returned
  /\ Len(fnIn.results) = 3
  /\ ErrorFreeValues("T1") = <<>>
  /\ Len(MembersOf("T1")) = 2
  /\ ErrorFreeNonNumbers("T1") # <<>>
  /\ DOMAIN AggregateOf(fnOut.first, "T1") \cap StatisticsFields = {}
  /\ ErrorFreeValues("T2") # <<>>
  /\ StatisticsFields \subseteq DOMAIN AggregateOf(fnOut.first, "T2")

\* C19: groupResults puts every record in exactly one group, the one keyed
\* by its template, in input order inside the group; afterwards a record's
\* sequence is the name it had and its name is its template; templates T1,
\* T1 with names q0, q1 give the single group T1 with both records.
C19_GroupedByTemplate ==
  fnOut.op = "group" =>
     /\ ~fnOut.threw
     /\ \A i \in 1..Len(fnIn.results) :
          /\ Cardinality({g \in 1..Len(fnOut.templates) :
                \E j \in 1..Len(fnOut.templates[g].members) :
                   fnOut.templates[g].members[j] = i}) = 1
          /\ \E g \in 1..Len(fnOut.templates) :
                /\ fnOut.templates[g].key = fnIn.results[i].template
                /\ \E j \in 1..Len(fnOut.templates[g].members) :
                      fnOut.templates[g].members[j] = i
          /\ fnOut.results[i].sequence = fnIn.results[i].name
          /\ fnOut.results[i].name = fnIn.results[i].template
     /\ \A g \in 1..Len(fnOut.templates) :
          \A j \in 1..(Len(fnOut.templates[g].members) - 1) :
             fnOut.templates[g].members[j] < fnOut.templates[g].members[j + 1]
     /\ (Len(fnIn.results) = 2 /\ \A i \in 1..2 : fnIn.results[i].template = "T1") =>
          fnOut.templates = <<[key |-> "T1", members |-> <<1, 2>>]>>

\* C20: aggregateResults and groupResults leave the records they are given
\* unchanged, and a second aggregateResults call on the same records gives
\* the same groups and the same sequence values as the first.
C20_RecordsUnchanged ==
  /\ (fnOut.op = "group" /\ ~fnOut.threw) => fnOut.results = fnIn.results
  /\ Returned => fnOut.first.results = fnIn.results
  /\ (Returned /\ fnOut.calls = 2 /\ ~fnOut.threw) =>
        /\ fnOut.groupedResults = fnOut.first.groupedResults
        /\ \A i \in 1..Len(fnIn.results) :
             fnOut.results[i].sequence = fnOut.first.results[i].sequence

(***************************************************************************)
(* Properties of the query loader                                          *)
(***************************************************************************)
ArrayFields == {i \in 1..Len(fnIn.parsed) : IsArray(fnIn.parsed[i].value)}

SingleFields == {i \in 1..Len(fnIn.parsed) : ~IsArray(fnIn.parsed[i].value)}

TheArray == fnIn.parsed[CHOOSE i \in ArrayFields : TRUE].value.elements

\* C21: a metadata file with no array-valued top-level field, and one with
\* more than one, fail to load and add no metadata records; a file with
\* exactly one gives one record per element of the array, in the array's
\* order, each with every non-array top-level field of the file.
C21_ExactlyOneArrayField ==
  fnOut.op = "load" =>
     /\ Cardinality(ArrayFields) # 1 =>
          fnOut.threw /\ fnOut.queryMetadata = <<>>
     /\ Cardinality(ArrayFields) = 1 =>
          /\ ~fnOut.threw
          /\ Len(fnOut.queryMetadata) = Len(TheArray)
          /\ \A j \in 1..Len(TheArray) :
               /\ \E f \in DOMAIN fnOut.queryMetadata[j] :
                     fnOut.queryMetadata[j][f] = TheArray[j]
               /\ \A i \in SingleFields :
                     /\ fnIn.parsed[i].key \in DOMAIN fnOut.queryMetadata[j]
                     /\ fnOut.queryMetadata[j][fnIn.parsed[i].key] = fnIn.parsed[i].value

(***************************************************************************)
(* Properties of the serializer                                            *)
(***************************************************************************)
\* C22: the text serialize writes, parsed back, has for every record the
\* same numeric fields, an Error object as its message string and a boolean
\* or absent error as it was; serialize leaves the records it is given as
\* they were.
C22_RawRoundTrip ==
  fnOut.op = "serialize" =>
     /\ Len(fnOut.parsed) = Len(fnIn.results)
     /\ \A i \in 1..Len(fnIn.results) :
          LET before == fnIn.results[i]
              after == fnOut.parsed[i]
          IN /\ "time" \in DOMAIN after /\ after.time = before.time
             /\ "error" \in DOMAIN before <=> "error" \in DOMAIN after
             /\ "error" \in DOMAIN before =>
                  IF before.error.kind = "Error"
                  THEN after.error = JsString(before.error.s)
                  ELSE after.error = before.error
     /\ fnOut.results = fnIn.results

(***************************************************************************)
(* Properties of executeQuery                                              *)
(***************************************************************************)
\* executeQuery has resolved on the stream's end event
ResolvedOnEnd == pc = "settled" /\ outcome.kind = "resolve"

NonDecreasing(samples) ==
  \A i \in 1..(Len(samples) - 1) : samples[i] <= samples[i + 1]

C24_TopologyAndProvenance ==
  ResolvedOnEnd =>
     /\ Len(outcome.value.contributingDocuments) = Len(received.topologyRows)
     /\ Len(outcome.value.contributingDocuments) <= outcome.value.count
     /\ \A k \in 1..Len(received.topologyRows) :
          outcome.value.contributingDocuments[k] =
            SourceAttributionAt(received.topologyRows[k])
     /\ outcome.value.trackedTopology =
          IF received.topologyRows = <<>> THEN EmptyTopology
          ELSE SnapshotAt(received.topologyRows[Len(received.topologyRows)])

\* both rows carried a topology snapshot
C24_Witness ==
  /\ ResolvedOnEnd
  /\ outcome.value.count = 2
  /\ received.topologyRows = <<1, 2>>
  /\ Len(outcome.value.contributingDocuments) = 2

\* an executeQuery call is pending
Pending == pc \in {"fetch", "stream"}

C28_SettledOnce ==
  /\ Pending => outcome.kind = "none"
  /\ pc = "settled" => outcome.kind \in {"resolve", "error", "reject", "timeout"}
  /\ cfg.timeout = 0 => ~timeoutHandle /\ outcome.kind # "timeout"

\* a settled promise keeps its outcome until the next call, a call settles
\* from pending only, and without a timer only the transport or the stream
\* settles it
C28_FirstEventWins ==
  /\ outcome.kind # "none" => outcome' = outcome \/ (pc = "for_id" /\ pc' = "fetch")
  /\ (outcome.kind = "none" /\ outcome'.kind # "none") => Pending /\ pc' = "settled"
  /\ (Pending /\ ~Pending' /\ cfg.timeout = 0) =>
        outcome'.kind \in {"resolve", "error", "reject"}

\* C28: with a positive timeout every executeQuery call eventually settles
\* (resolve on end, reject on error, reject on timeout), also when the
\* transport never answers or the stream never ends, exactly once and with
\* the outcome of the first event; without a timeout no timer is armed and
\* only an event of the transport or the stream ends the call.
C28_EventuallySettles ==
  /\ []C28_SettledOnce
  /\ [][C28_FirstEventWins]_vars
  /\ ((Pending /\ cfg.timeout # 0) ~> ~Pending)

\* the timer settled a call whose stream was open and has not ended since
C28_Witness ==
  /\ pc = "settled"
  /\ outcome.kind = "timeout"
  /\ abandoned > 0

\* a step in which a handler of an abandoned stream runs
LateEvent == late' # late \/ abandoned' < abandoned

\* the loop body's step for a call that the timer settled
TimedOutBody == pc = "settled" /\ outcome.kind = "timeout" /\ pc' # pc

C25_Step ==
  /\ LateEvent => UNCHANGED <<data, measured, locals, outcome, streamVars>>
  /\ data' # data => pc \in {"settled", "warmup", "onStart", "average"}
  /\ TimedOutBody =>
        /\ pc' # "rejected"
        /\ CurrentKey \in DOMAIN data'
        /\ DOMAIN data' = DOMAIN data \cup {CurrentKey}
        /\ \A key \in DOMAIN data \ {CurrentKey} : data'[key] = data[key]
        /\ locals'.count = 0 /\ locals'.time = 0
        /\ locals'.metricsCalculated = <<-1, -1, -1, -1>>
        /\ IF CurrentKey \in DOMAIN data
           THEN /\ data'[CurrentKey].count = data[CurrentKey].count
                /\ data'[CurrentKey].time = data[CurrentKey].time
                /\ data'[CurrentKey].metricsCalculated = data[CurrentKey].metricsCalculated
           ELSE /\ data'[CurrentKey].count = 0
                /\ data'[CurrentKey].time = 0
                /\ data'[CurrentKey].metricsCalculated = <<-1, -1, -1, -1>>

\* C25: the events of a query that lost the race against its timer (rows,
\* metadata, error, end after the timer fired) change neither the
\* accumulator nor any measurement: the iteration of that query counts as
\* count 0, time 0 and four -1 metrics in its record, no other record is
\* touched, and the accumulator changes only in the loop body after an
\* executeQuery call has settled (and where run() creates and averages it),
\* never while a call is pending.
C25_LateEventsIgnored == [][C25_Step]_vars

\* a row of the abandoned stream arrived after its query was recorded
C25_Witness ==
  /\ late.count > 0
  /\ abandoned > 0
  /\ outcome.kind = "timeout"
  /\ pc = "sleep"
  /\ CurrentKey \in DOMAIN data
  /\ data[CurrentKey].count = 0
  /\ data[CurrentKey].metricsCalculated = <<-1, -1, -1, -1>>

(***************************************************************************)
(* Properties of the merge of an iteration into its record                 *)
(***************************************************************************)
\* the records that a step keeps: those of the accumulator before and after
Kept == DOMAIN data \cap DOMAIN data'

\* the replication iterations measured so far for the record under key
IterationsUnder(key) ==
  SelectSeq(measured, LAMBDA m : m.name \o m.id = key)

C26_Sticky == \A key \in Kept : data[key].error => data'[key].error

C26_FalseOnlyIfAllSucceeded ==
  phase = "replication" =>
     \A key \in DOMAIN data :
        data[key].error <=>
          \E i \in 1..Len(IterationsUnder(key)) : IterationsUnder(key)[i].error

\* C26: a record's error flag is sticky: once an iteration of its query has
\* failed it stays true through all later iterations, a later successful
\* iteration does not reset it, and it is false only if every iteration of
\* the query succeeded.
C26_ErrorSticky == []C26_FalseOnlyIfAllSucceeded /\ [][C26_Sticky]_vars

\* a failed iteration was followed by a successful one of the same query
C26_Witness ==
  /\ phase = "replication"
  /\ pc = "sleep"
  /\ ~locals.errorObject
  /\ data[CurrentKey].error
  /\ Len(IterationsUnder(CurrentKey)) = 2
  /\ IterationsUnder(CurrentKey)[1].error
  /\ ~IterationsUnder(CurrentKey)[2].error

====
